---- MODULE Spec2Model ----
(***************************************************************************)
(* The task repository of tasks-api (src/server.js): the in-memory backend *)
(* and the Postgres backend, driven in lockstep by the same calls.         *)
(*                                                                         *)
(* Strings are sequences of one-character strings.  A JavaScript value     *)
(* that may be undefined or null is a sequence of length 0 (absent) or 1.  *)
(* Text comparison in Postgres is taken bytewise (the C collation), which  *)
(* on the characters used here is the order of JavaScript's <.             *)
(***************************************************************************)
EXTENDS Integers, Sequences, FiniteSets

\* issued: the ids of the seed tasks and the ids create has returned on the
\* in-memory instance, in order; reqs: the requests in flight together;
\* watch: the states of the store a pagination traversal has run across
\* held: a task a caller keeps from an earlier call; http: the HTTP layer
\* (configuration, rate limiter, the last exchange); sd: the process from
\* the first signal to its exit
VARIABLES memTasks, nextId, pgRows, pgSeq, last, prev, pages, lk,
          issued, reqs, watch, held, http, sd

vars == <<memTasks, nextId, pgRows, pgSeq, last, prev, pages, lk,
          issued, reqs, watch, held, http, sd>>

\* ------------------------------------------------------------------ bounds

\* ids handed out per backend before create is no longer called
MaxId == 2
\* largest limit and offset passed to list
MaxLimit == 2
MaxOffset == 2
\* page sizes 1..MaxPageLimit of a pagination traversal
MaxPageLimit == 2
\* lengths of the title and the search text given to the LIKE probe
MaxTitleLen == 3
MaxSearchLen == 3
\* requests in flight together
MaxRequests == 3
\* writes of other requests that take effect during one pagination traversal
MaxBetween == 1

\* ------------------------------------------------------------------ values

None == <<>>
Some(x) == <<x>>

Min(a, b) == IF a < b THEN a ELSE b
Max(a, b) == IF a < b THEN b ELSE a

Range(s) == {s[i] : i \in 1..Len(s)}

\* titles and search texts of the repository calls
Titles == {<<"A", "b">>, <<"a", "_">>}
SearchArgs == {None, Some(<<>>), Some(<<"b">>), Some(<<"_">>)}
DoneArgs == {None, Some(TRUE), Some(FALSE)}
SortArgs == {"id", "title", "done"}
OrderArgs == {"asc", "desc"}
\* -1 is the id the contract tests use for a task that does not exist
IdArgs == {-1} \cup (1..MaxId)

\* UTF-16 code unit of a character
CharCode(c) ==
  CASE c = "%" -> 37
    [] c = "A" -> 65
    [] c = "B" -> 66
    [] c = "\\" -> 92
    [] c = "_" -> 95
    [] c = "a" -> 97
    [] c = "b" -> 98

LowerChar(c) ==
  CASE c = "A" -> "a"
    [] c = "B" -> "b"
    [] OTHER -> c

\* String.prototype.toLowerCase
toLowerCase(s) == [i \in 1..Len(s) |-> LowerChar(s[i])]

\* String.prototype.includes
includes(s, sub) ==
  \E k \in 0..(Len(s) - Len(sub)) : SubSeq(s, k + 1, k + Len(sub)) = sub

\* a < b on two strings: by code units, a proper prefix first
RECURSIVE StrLess(_, _)
StrLess(a, b) ==
  IF b = <<>> THEN FALSE
  ELSE IF a = <<>> THEN TRUE
  ELSE IF a[1] = b[1] THEN StrLess(Tail(a), Tail(b))
  ELSE CharCode(a[1]) < CharCode(b[1])

\* a < b on two values of the field named by sort
JsLess(a, b, sort) ==
  CASE sort = "id" -> a < b
    [] sort = "title" -> StrLess(a, b)
    [] sort = "done" -> (a = FALSE /\ b = TRUE)

\* Array.prototype.slice(start, end), both non-negative
slice(s, start, end) ==
  LET lo == Min(start, Len(s))
      hi == Min(end, Len(s))
  IN  IF lo < hi THEN SubSeq(s, lo + 1, hi) ELSE <<>>

\* keys a plain object inherits from Object.prototype, and the text a
\* template literal makes of the inherited value
ObjectPrototypeKeys == {"constructor", "toString", "__proto__"}

InheritedText(key) ==
  CASE key = "constructor" -> "function Object() { [native code] }"
    [] key = "toString" -> "function toString() { [native code] }"
    [] key = "__proto__" -> "[object Object]"

\* t[key] of a task object: the value of its own property, the value it
\* inherits from Object.prototype (the same for every task), or undefined
TaskField(t, key) ==
  IF key \in {"id", "title", "done"} THEN t[key]
  ELSE IF key \in ObjectPrototypeKeys THEN Some(InheritedText(key))
  ELSE None

\* ------------------------------------------------- in-memory repository

compareValues(a, b, sort) ==
  IF a = b THEN 0 ELSE IF JsLess(a, b, sort) THEN -1 ELSE 1

\* the comparator handed to sort, with the tie-break following the direction
MemComparator_TieFollowsOrder(a, b, sort, direction) ==
  LET primary == compareValues(TaskField(a, sort), TaskField(b, sort), sort)
  IN  IF primary # 0 THEN primary * direction
      ELSE compareValues(a.id, b.id, "id") * direction

\* the comparator handed to sort
MemComparator(a, b, sort, direction) ==
  LET primary == compareValues(TaskField(a, sort), TaskField(b, sort), sort)
  IN  IF primary # 0 THEN primary * direction
      ELSE compareValues(a.id, b.id, "id")

\* x placed into the sorted s, before the first element it precedes
InsertSorted(x, s, sort, direction) ==
  LET before == {i \in 1..Len(s) : MemComparator(x, s[i], sort, direction) < 0}
      at == IF before = {} THEN Len(s) + 1
            ELSE CHOOSE i \in before : \A j \in before : i <= j
  IN  SubSeq(s, 1, at - 1) \o <<x>> \o SubSeq(s, at, Len(s))

\* filtered.slice().sort(comparator)
RECURSIVE MemSort(_, _, _)
MemSort(s, sort, direction) ==
  IF s = <<>> THEN <<>>
  ELSE InsertSorted(s[Len(s)], MemSort(SubSeq(s, 1, Len(s) - 1), sort, direction),
                    sort, direction)

\* the done filter applied when done is truthy, so that false counts as absent
MemFilter_FalsyDone(tasks, done, search) ==
  LET byDone == IF done # None /\ done[1]
                THEN SelectSeq(tasks, LAMBDA t : t.done = done[1])
                ELSE tasks
  IN  IF search # None /\ search[1] # <<>>
      THEN SelectSeq(byDone,
             LAMBDA t : includes(toLowerCase(t.title), toLowerCase(search[1])))
      ELSE byDone

\* the done filter, then the search filter
MemFilter(tasks, done, search) ==
  LET byDone == IF done # None
                THEN SelectSeq(tasks, LAMBDA t : t.done = done[1])
                ELSE tasks
  IN  IF search # None /\ search[1] # <<>>
      THEN SelectSeq(byDone,
             LAMBDA t : includes(toLowerCase(t.title), toLowerCase(search[1])))
      ELSE byDone

\* the page cut with the limit as the end index instead of offset + limit
MemPage_EndIsLimit(sorted, offset, limit) == slice(sorted, offset, limit)

\* sorted.slice(offset, offset + limit)
MemPage(sorted, offset, limit) == slice(sorted, offset, offset + limit)

\* list that sorts the stored array itself when no filter has copied it
MemListStore_SortsInPlace(tasks, q) ==
  IF q.done = None /\ (q.search = None \/ q.search = Some(<<>>))
  THEN MemSort(tasks, q.sort, IF q.order = "asc" THEN 1 ELSE -1)
  ELSE tasks

\* the stored array after list: filter builds new arrays and the sort runs
\* on filtered.slice(), so tasks is as it was
MemListStore(tasks, q) == tasks

MemList(tasks, q) ==
  LET filtered == MemFilter(tasks, q.done, q.search)
      direction == IF q.order = "asc" THEN 1 ELSE -1
      sorted == MemSort(filtered, q.sort, direction)
  IN  [items |-> MemPage(sorted, q.offset, q.limit), total |-> Len(sorted)]

\* tasks.find((t) => t.id === id) || null
MemGetById(tasks, id) ==
  LET hits == SelectSeq(tasks, LAMBDA t : t.id = id)
  IN  IF hits = <<>> THEN None ELSE Some(hits[1])

\* update that adds the task when no task has the id
MemUpdate_Upsert(tasks, id, title, done) ==
  IF MemGetById(tasks, id) = None
  THEN Append(tasks, [id |-> id, title |-> title, done |-> done])
  ELSE [i \in 1..Len(tasks) |->
          IF tasks[i].id = id
          THEN [id |-> id, title |-> title, done |-> done]
          ELSE tasks[i]]

\* update that takes the task out and appends the rewritten task
MemUpdate_MovesToEnd(tasks, id, title, done) ==
  IF MemGetById(tasks, id) = None THEN tasks
  ELSE Append(SelectSeq(tasks, LAMBDA t : t.id # id),
              [id |-> id, title |-> title, done |-> done])

\* update that writes the title and leaves done as it was
MemUpdate_TitleOnly(tasks, id, title, done) ==
  [i \in 1..Len(tasks) |->
     IF tasks[i].id = id
     THEN [id |-> id, title |-> title, done |-> tasks[i].done]
     ELSE tasks[i]]

\* the tasks after update: the first task with the id overwritten in place
MemUpdate(tasks, id, title, done) ==
  LET at == {i \in 1..Len(tasks) : tasks[i].id = id}
  IN  IF at = {} THEN tasks
      ELSE LET first == CHOOSE i \in at : \A j \in at : i <= j
           IN  [tasks EXCEPT ![first] =
                  [id |-> tasks[first].id, title |-> title, done |-> done]]

\* what update returns: null, or the task it has just overwritten
MemUpdateResult(tasks, id, title, done) ==
  IF MemGetById(tasks, id) = None THEN None
  ELSE MemGetById(MemUpdate(tasks, id, title, done), id)

\* delete that cuts the array off at the task
MemDelete_TruncatesAt(tasks, id) ==
  LET at == {i \in 1..Len(tasks) : tasks[i].id = id}
  IN  IF at = {} THEN tasks
      ELSE SubSeq(tasks, 1, (CHOOSE i \in at : \A j \in at : i <= j) - 1)

\* the tasks after delete
MemDelete(tasks, id) == SelectSeq(tasks, LAMBDA t : t.id # id)

\* delete answering whether any task is left
MemDeleteResult_AnyLeft(before, after) == Len(after) # 0

\* tasks.length !== before
MemDeleteResult(before, after) == Len(after) # Len(before)

\* tasks.reduce((max, t) => Math.max(max, t.id), 0) + 1
RECURSIVE MemMaxId(_, _)
MemMaxId(tasks, max) ==
  IF tasks = <<>> THEN max ELSE MemMaxId(Tail(tasks), Max(max, tasks[1].id))

\* nextId of a repository constructed on seedTasks
MemInitialNextId(seedTasks) == MemMaxId(seedTasks, 0) + 1

\* the new id taken from the number of stored tasks
MemCreateId_LengthPlusOne(tasks, counter) == Len(tasks) + 1

\* the new id taken from the highest id in the store
MemCreateId_MaxStoredPlusOne(tasks, counter) == MemMaxId(tasks, 0) + 1

\* the id of the task that create builds: nextId++ yields the counter
MemCreateId(tasks, counter) == counter

\* ---------------------------------------------------- Postgres repository

\* str.replace(/ch/g, rep)
RECURSIVE ReplaceAll(_, _, _)
ReplaceAll(s, ch, rep) ==
  IF s = <<>> THEN <<>>
  ELSE (IF s[1] = ch THEN rep ELSE <<s[1]>>) \o ReplaceAll(Tail(s), ch, rep)

\* the escaping with the backslash left as it is
escapeLike_KeepsBackslash(str) ==
  ReplaceAll(ReplaceAll(str, "%", <<"\\", "%">>), "_", <<"\\", "_">>)

\* Escape SQL LIKE wildcards: \, %, _
escapeLike(str) ==
  ReplaceAll(ReplaceAll(ReplaceAll(str, "\\", <<"\\", "\\">>),
                        "%", <<"\\", "%">>),
             "_", <<"\\", "_">>)

\* s LIKE p ESCAPE '\': % is any run of characters, _ any one character, and
\* a backslash makes the character after it literal.  A pattern that ends in
\* a lone backslash is rejected by Postgres; it matches nothing here.
RECURSIVE LikeMatch(_, _)
LikeMatch(s, p) ==
  IF p = <<>> THEN s = <<>>
  ELSE IF p[1] = "\\"
       THEN /\ Len(p) >= 2
            /\ s # <<>>
            /\ s[1] = p[2]
            /\ LikeMatch(Tail(s), Tail(Tail(p)))
  ELSE IF p[1] = "%"
       THEN \E k \in 0..Len(s) : LikeMatch(SubSeq(s, k + 1, Len(s)), Tail(p))
  ELSE IF p[1] = "_"
       THEN s # <<>> /\ LikeMatch(Tail(s), Tail(p))
  ELSE s # <<>> /\ s[1] = p[1] /\ LikeMatch(Tail(s), Tail(p))

\* s ILIKE p ESCAPE '\': LIKE on the case-folded text and pattern
ILike(s, p) == LikeMatch(toLowerCase(s), toLowerCase(p))

\* the bound parameter `%${escapeLike(search)}%`
LikePattern(search) == <<"%">> \o escapeLike(search) \o <<"%">>

\* the rows the WHERE clause keeps: a clause only for a filter that is present
PgWhere(rows, done, search) ==
  {r \in rows :
     /\ (done # None => r.done = done[1])
     /\ (search # None /\ search[1] # <<>>
           => ILike(r.title, LikePattern(search[1])))}

\* the keys of the object literal SORT_COLUMN, each mapped to itself
PgColumns == {"id", "title", "done"}

\* SORT_COLUMN[sort] || "id": the own value, else the inherited value (a
\* function or an object, which is truthy), else "id"
PgSortColumn(sort) ==
  IF sort \in PgColumns THEN sort
  ELSE IF sort \in ObjectPrototypeKeys THEN InheritedText(sort)
  ELSE "id"

PgSortDirection(order) == IF order = "desc" THEN "DESC" ELSE "ASC"

\* the text after ORDER BY, word by word
PgOrderByText(sort, order) ==
  IF PgSortColumn(sort) = "id"
  THEN <<"id", PgSortDirection(order)>>
  ELSE <<PgSortColumn(sort), PgSortDirection(order), ",", "id", "ASC">>

\* row a comes before row b under ORDER BY sortColumn sortDirection, id ASC
\* (ORDER BY id sortDirection when the column is id)
PgBefore(a, b, sortColumn, sortDirection) ==
  IF a[sortColumn] # b[sortColumn]
  THEN IF sortDirection = "ASC"
       THEN JsLess(a[sortColumn], b[sortColumn], sortColumn)
       ELSE JsLess(b[sortColumn], a[sortColumn], sortColumn)
  ELSE a.id < b.id

RECURSIVE PgOrderBy(_, _, _)
PgOrderBy(rows, sortColumn, sortDirection) ==
  IF rows = {} THEN <<>>
  ELSE LET first == CHOOSE r \in rows :
                      \A o \in rows \ {r} : PgBefore(r, o, sortColumn, sortDirection)
       IN  <<first>> \o PgOrderBy(rows \ {first}, sortColumn, sortDirection)

\* LIMIT limit OFFSET offset
PgLimitOffset(ordered, limit, offset) ==
  slice(ordered, offset, offset + limit)

\* the SELECT with the count taken over the rows of the page
PgSelect_CountsPage(rows, q) ==
  LET kept == PgWhere(rows, q.done, q.search)
      ordered == PgOrderBy(kept, PgSortColumn(q.sort), PgSortDirection(q.order))
      page == PgLimitOffset(ordered, q.limit, q.offset)
  IN  [i \in 1..Len(page) |->
         [id |-> page[i].id, title |-> page[i].title, done |-> page[i].done,
          total |-> Len(page)]]

\* the rows of the SELECT: the page, each row with COUNT(*) OVER() of the
\* rows the WHERE clause kept
PgSelect(rows, q) ==
  LET kept == PgWhere(rows, q.done, q.search)
      ordered == PgOrderBy(kept, PgSortColumn(q.sort), PgSortDirection(q.order))
      page == PgLimitOffset(ordered, q.limit, q.offset)
  IN  [i \in 1..Len(page) |->
         [id |-> page[i].id, title |-> page[i].title, done |-> page[i].done,
          total |-> Cardinality(kept)]]

PgList(rows, q) ==
  LET result == PgSelect(rows, q)
  IN  [items |-> [i \in 1..Len(result) |->
                    [id |-> result[i].id, title |-> result[i].title,
                     done |-> result[i].done]],
       total |-> IF Len(result) > 0 THEN result[1].total ELSE 0]

\* res.rows[0] || null of SELECT ... WHERE id = $1
PgGetById(rows, id) ==
  LET hits == {r \in rows : r.id = id}
  IN  IF hits = {} THEN None ELSE Some(CHOOSE r \in hits : TRUE)

\* the table after UPDATE tasks SET title = $1, done = $2 WHERE id = $3
PgUpdate(rows, id, title, done) ==
  {IF r.id = id THEN [id |-> r.id, title |-> title, done |-> done] ELSE r :
     r \in rows}

\* res.rows[0] || null of the UPDATE's RETURNING id, title, done
PgUpdateResult(rows, id, title, done) ==
  LET returned == {[id |-> r.id, title |-> title, done |-> done] :
                     r \in {o \in rows : o.id = id}}
  IN  IF returned = {} THEN None ELSE Some(CHOOSE r \in returned : TRUE)

\* the table after DELETE FROM tasks WHERE id = $1
PgDelete(rows, id) == {r \in rows : r.id # id}

\* res.rowCount > 0
PgDeleteResult(before, after) == Cardinality(before) - Cardinality(after) > 0

\* the statement of list with the search clause always written as $2
PgListStatement_SearchIsSecond(q) ==
  LET doneClauses == IF q.done # None
                     THEN <<[text |-> "done =", placeholder |-> 1]>>
                     ELSE <<>>
      doneParams == IF q.done # None
                    THEN <<[kind |-> "done", value |-> q.done[1]]>>
                    ELSE <<>>
      hasSearch == q.search # None /\ q.search[1] # <<>>
      whereClauses == IF hasSearch
                      THEN Append(doneClauses,
                                  [text |-> "title ILIKE", placeholder |-> 2])
                      ELSE doneClauses
      queryParams == IF hasSearch
                     THEN Append(doneParams,
                                 [kind |-> "search",
                                  value |-> LikePattern(q.search[1])])
                     ELSE doneParams
      limitIndex == 1 + Len(whereClauses)
  IN  [whereKeyword |-> Len(whereClauses) # 0,
       whereClauses |-> whereClauses,
       limitPlaceholder |-> limitIndex,
       offsetPlaceholder |-> limitIndex + 1,
       boundParams |-> queryParams
                         \o <<[kind |-> "limit", value |-> q.limit],
                              [kind |-> "offset", value |-> q.offset]>>]

\* the SQL text of list, as the clauses joined by AND after WHERE and the
\* numbers of the placeholders, and the parameters bound to it: paramIndex
\* starts at 1 and each $${paramIndex++} takes the next number
PgListStatement(q) ==
  LET index0 == 1
      doneClauses == IF q.done # None
                     THEN <<[text |-> "done =", placeholder |-> index0]>>
                     ELSE <<>>
      doneParams == IF q.done # None
                    THEN <<[kind |-> "done", value |-> q.done[1]]>>
                    ELSE <<>>
      index1 == IF q.done # None THEN index0 + 1 ELSE index0
      hasSearch == q.search # None /\ q.search[1] # <<>>
      whereClauses == IF hasSearch
                      THEN Append(doneClauses,
                                  [text |-> "title ILIKE", placeholder |-> index1])
                      ELSE doneClauses
      queryParams == IF hasSearch
                     THEN Append(doneParams,
                                 [kind |-> "search",
                                  value |-> LikePattern(q.search[1])])
                     ELSE doneParams
      index2 == IF hasSearch THEN index1 + 1 ELSE index1
  IN  [whereKeyword |-> Len(whereClauses) # 0,
       whereClauses |-> whereClauses,
       limitPlaceholder |-> index2,
       offsetPlaceholder |-> index2 + 1,
       boundParams |-> queryParams
                         \o <<[kind |-> "limit", value |-> q.limit],
                              [kind |-> "offset", value |-> q.offset]>>]

\* what a method would answer on a store that holds nothing
PgEmptyAnswer(method) ==
  CASE method = "list" -> [items |-> <<>>, total |-> 0]
    [] method = "delete" -> [deleted |-> FALSE]
    [] OTHER -> [task |-> None]

\* a method that catches the rejection and answers as on an empty store
PgOnRejection_Swallowed(method, error) == [returned |-> PgEmptyAnswer(method)]

\* await pool.query(...) with a rejected promise: no method has a
\* try/catch, so the method's own promise is rejected with the same error
PgOnRejection(method, error) == [thrown |-> error]

\* the pool.query calls in the methods, by source line; none is in a loop
\* or in a handler that runs again
PgQuerySites ==
  {[method |-> "list", line |-> 332], [method |-> "getById", line |-> 345],
   [method |-> "create", line |-> 353], [method |-> "update", line |-> 361],
   [method |-> "delete", line |-> 369]}

\* the queries one run of a method issues
PgQueryCalls(method) ==
  Cardinality({site \in PgQuerySites : site.method = method})

\* ---------------------------------------------------------------- calls

\* no call in flight
Idle == [op |-> "idle"]
NoPrev == [op |-> "none"]
\* no concurrent requests, and no traversal disturbed by another request
NoReqs == <<>>
Calm == [changes |-> 0, stores |-> {}]
\* no task kept by a caller, no HTTP layer, no shutdown under way
NoHeld == [st |-> "none"]
NoHttp == [st |-> "none"]
NoShutdown == [st |-> "none"]

\* what is kept of a call once it has returned
Compact(c) == IF c.op = "list" THEN [op |-> "list"] ELSE c

Queries ==
  [limit : 0..MaxLimit, offset : 0..MaxOffset, done : DoneArgs,
   search : SearchArgs, sort : SortArgs, order : OrderArgs]

Init ==
  /\ memTasks = <<>>
  /\ nextId = 1
  /\ pgRows = {}
  /\ pgSeq = 0
  /\ last = Idle
  /\ prev = NoPrev
  /\ pages = [st |-> "idle"]
  /\ lk = [st |-> "idle"]
  /\ issued = <<>>
  /\ reqs = NoReqs
  /\ watch = Calm
  /\ held = NoHeld
  /\ http = NoHttp
  /\ sd = NoShutdown

\* The task a caller holds after update(id, ...). The in-memory backend
\* hands out the stored object itself (create returns the object it pushed,
\* getById the one tasks.find found, list slices of arrays of the stored
\* objects) and update assigns title and done to that object; an id is
\* never given twice, so the held object is the stored one exactly while a
\* task of its id is stored. A row of the relational backend is a fresh
\* object of each query.
MemHeldAfterUpdate(h, tasks, id, title, done) ==
  IF h.st = "kept" /\ h.mem.id = id /\ MemGetById(tasks, id) # None
  THEN [h EXCEPT !.mem = [id |-> id, title |-> title, done |-> done]]
  ELSE h

\* create({ title, done }) on both backends
Create(title, done) ==
  /\ last = Idle
  /\ pages.st = "idle"
  /\ nextId <= MaxId
  /\ pgSeq < MaxId
  /\ LET task == [id |-> MemCreateId(memTasks, nextId),
                  title |-> title, done |-> done]
         row == [id |-> pgSeq + 1, title |-> title, done |-> done]
     IN  /\ nextId' = nextId + 1
         /\ memTasks' = Append(memTasks, task)
         /\ pgSeq' = pgSeq + 1
         /\ pgRows' = pgRows \cup {row}
         /\ issued' = Append(issued, task.id)
         /\ last' = [op |-> "create", title |-> title, done |-> done,
                     mem |-> task, pg |-> row]
  /\ prev' = NoPrev
  /\ UNCHANGED <<pages, lk, reqs, watch, held, http, sd>>

\* update(id, { title, done }) on both backends
Update(id, title, done) ==
  /\ last = Idle
  /\ pages.st = "idle"
  /\ memTasks' = MemUpdate(memTasks, id, title, done)
  /\ pgRows' = PgUpdate(pgRows, id, title, done)
  /\ last' = [op |-> "update", id |-> id, title |-> title, done |-> done,
              memHad |-> \E i \in 1..Len(memTasks) : memTasks[i].id = id,
              pgHad |-> \E r \in pgRows : r.id = id,
              mem |-> MemUpdateResult(memTasks, id, title, done),
              pg |-> PgUpdateResult(pgRows, id, title, done)]
  /\ prev' = NoPrev
  /\ held' = MemHeldAfterUpdate(held, memTasks, id, title, done)
  /\ UNCHANGED <<nextId, pgSeq, pages, lk, issued, reqs, watch, http, sd>>

\* delete(id) on both backends
Delete(id) ==
  /\ last = Idle
  /\ pages.st = "idle"
  /\ memTasks' = MemDelete(memTasks, id)
  /\ pgRows' = PgDelete(pgRows, id)
  /\ last' = [op |-> "delete", id |-> id,
              memHad |-> \E i \in 1..Len(memTasks) : memTasks[i].id = id,
              pgHad |-> \E r \in pgRows : r.id = id,
              mem |-> MemDeleteResult(memTasks, memTasks'),
              pg |-> PgDeleteResult(pgRows, pgRows')]
  /\ UNCHANGED <<nextId, pgSeq, prev, pages, lk, issued, reqs, watch, held, http, sd>>

\* getById(id) on both backends
GetById(id) ==
  /\ last = Idle
  /\ pages.st = "idle"
  /\ last' = [op |-> "getById", id |-> id,
              memHad |-> \E i \in 1..Len(memTasks) : memTasks[i].id = id,
              pgHad |-> \E r \in pgRows : r.id = id,
              mem |-> MemGetById(memTasks, id),
              pg |-> PgGetById(pgRows, id)]
  /\ UNCHANGED <<memTasks, nextId, pgRows, pgSeq, prev, pages, lk, issued, reqs, watch,
                 held, http, sd>>

\* list(q) on both backends
List(q) ==
  /\ last = Idle
  /\ pages.st = "idle"
  /\ last' = [op |-> "list", q |-> q,
              mem |-> MemList(memTasks, q), pg |-> PgList(pgRows, q)]
  /\ memTasks' = MemListStore(memTasks, q)
  /\ prev' = NoPrev
  /\ UNCHANGED <<nextId, pgRows, pgSeq, pages, lk, issued, reqs, watch, held, http, sd>>

\* the awaited call returns to its caller
Return ==
  /\ last # Idle
  /\ last' = Idle
  /\ UNCHANGED <<memTasks, nextId, pgRows, pgSeq, prev, pages, lk, issued, reqs, watch,
                 held, http, sd>>

\* the awaited call returns and the caller keeps what it called and got
ReturnNoted ==
  /\ last # Idle
  /\ prev' = Compact(last)
  /\ last' = Idle
  /\ UNCHANGED <<memTasks, nextId, pgRows, pgSeq, pages, lk, issued, reqs, watch,
                 held, http, sd>>

Next ==
  \/ \E title \in Titles, done \in BOOLEAN : Create(title, done)
  \/ \E id \in IdArgs, title \in Titles, done \in BOOLEAN : Update(id, title, done)
  \/ \E id \in IdArgs : Delete(id)
  \/ \E id \in IdArgs : GetById(id)
  \/ \E q \in Queries : List(q)
  \/ Return

Spec == Init /\ [][Next]_vars

\* calls in sequence, each call seeing the call that returned before it
NextSeq ==
  \/ \E title \in Titles, done \in BOOLEAN : Create(title, done)
  \/ \E id \in IdArgs, title \in Titles, done \in BOOLEAN : Update(id, title, done)
  \/ \E id \in IdArgs : Delete(id)
  \/ \E id \in IdArgs : GetById(id)
  \/ ReturnNoted

SpecSeq == Init /\ [][NextSeq]_vars

\* ------------------------------------------------- tasks callers keep

\* the tasks a call has returned, as the pair of what each backend returned
ReturnedTasks(l) ==
  CASE l.op = "create" -> {[mem |-> l.mem, pg |-> l.pg]}
    [] l.op \in {"getById", "update"} ->
         IF l.mem = None \/ l.pg = None THEN {}
         ELSE {[mem |-> l.mem[1], pg |-> l.pg[1]]}
    [] l.op = "list" ->
         {[mem |-> l.mem.items[i], pg |-> l.pg.items[i]] :
            i \in 1..Min(Len(l.mem.items), Len(l.pg.items))}
    [] OTHER -> {}

\* the awaited call returns and the caller keeps one of the tasks it got
ReturnHeld ==
  /\ last # Idle
  /\ held = NoHeld
  /\ \E t \in ReturnedTasks(last) :
       held' = [st |-> "kept", op |-> last.op, mem |-> t.mem, pg |-> t.pg,
                then |-> t]
  /\ last' = Idle
  /\ UNCHANGED <<memTasks, nextId, pgRows, pgSeq, prev, pages, lk, issued, reqs, watch,
                 http, sd>>

HeldQueries ==
  {q \in Queries : q.limit = MaxLimit /\ q.offset = 0 /\ q.done = None
                     /\ q.search = None /\ q.sort = "id"}

NextHeld ==
  \/ \E title \in Titles, done \in BOOLEAN : Create(title, done)
  \/ \E id \in IdArgs, title \in Titles, done \in BOOLEAN : Update(id, title, done)
  \/ \E id \in IdArgs : Delete(id)
  \/ \E id \in IdArgs : GetById(id)
  \/ \E q \in HeldQueries : List(q)
  \/ ReturnHeld
  \/ Return

SpecHeld == Init /\ [][NextHeld]_vars

\* ------------------------------------------------- requests in flight

\* the body of an in-memory repository method: it holds no await, so it runs
\* from its first statement to its return with no other code in between
MemRun(store, call) ==
  CASE call.op = "create" ->
         LET task == [id |-> MemCreateId(store.tasks, store.nextId),
                      title |-> call.title, done |-> call.done]
         IN  [tasks |-> Append(store.tasks, task),
              nextId |-> store.nextId + 1, res |-> Some(task)]
    [] call.op = "update" ->
         [tasks |-> MemUpdate(store.tasks, call.id, call.title, call.done),
          nextId |-> store.nextId,
          res |-> MemUpdateResult(store.tasks, call.id, call.title, call.done)]
    [] call.op = "delete" ->
         [tasks |-> MemDelete(store.tasks, call.id),
          nextId |-> store.nextId,
          res |-> Some(MemDeleteResult(store.tasks,
                                       MemDelete(store.tasks, call.id)))]
    [] call.op = "getById" ->
         [tasks |-> store.tasks, nextId |-> store.nextId,
          res |-> MemGetById(store.tasks, call.id)]
    [] call.op = "list" ->
         [tasks |-> MemListStore(store.tasks, call.q), nextId |-> store.nextId,
          res |-> Some(MemList(store.tasks, call.q))]

\* the one statement of a Postgres repository method, run on the table as
\* it is when the statement starts
PgRun(table, call) ==
  CASE call.op = "create" ->
         LET row == [id |-> table.seq + 1,
                     title |-> call.title, done |-> call.done]
         IN  [rows |-> table.rows \cup {row}, seq |-> table.seq + 1,
              res |-> Some(row)]
    [] call.op = "update" ->
         [rows |-> PgUpdate(table.rows, call.id, call.title, call.done),
          seq |-> table.seq,
          res |-> PgUpdateResult(table.rows, call.id, call.title, call.done)]
    [] call.op = "delete" ->
         [rows |-> PgDelete(table.rows, call.id), seq |-> table.seq,
          res |-> Some(PgDeleteResult(table.rows,
                                      PgDelete(table.rows, call.id)))]
    [] call.op = "getById" ->
         [rows |-> table.rows, seq |-> table.seq,
          res |-> PgGetById(table.rows, call.id)]
    [] call.op = "list" ->
         [rows |-> table.rows, seq |-> table.seq,
          res |-> Some(PgList(table.rows, call.q))]

\* the repository calls of the requests that are in flight together
ConcQuery ==
  [limit |-> 1, offset |-> 0, done |-> None, search |-> None,
   sort |-> "id", order |-> "desc"]

ConcCalls ==
  {[op |-> "create", title |-> <<"A", "b">>, done |-> FALSE],
   [op |-> "create", title |-> <<"a", "_">>, done |-> TRUE],
   [op |-> "update", id |-> 1, title |-> <<"a", "_">>, done |-> TRUE],
   [op |-> "delete", id |-> 1],
   [op |-> "getById", id |-> 1],
   [op |-> "list", q |-> ConcQuery]}

\* MaxRequests requests have arrived and none has called the repository yet
InitConc ==
  /\ memTasks = <<>>
  /\ nextId = 1
  /\ pgRows = {}
  /\ pgSeq = 0
  /\ last = Idle
  /\ prev = NoPrev
  /\ pages = [st |-> "idle"]
  /\ lk = [st |-> "idle"]
  /\ issued = <<>>
  /\ watch = Calm
  /\ held = NoHeld
  /\ http = NoHttp
  /\ sd = NoShutdown
  /\ reqs \in [1..MaxRequests -> {[call |-> c, st |-> "pending"] : c \in ConcCalls}]

\* the handler of request r gets its turn and calls the repository: the
\* in-memory method body runs, the Postgres statement runs
ConcRun(r) ==
  /\ r \in DOMAIN reqs
  /\ reqs[r].st = "pending"
  /\ LET mem == MemRun([tasks |-> memTasks, nextId |-> nextId], reqs[r].call)
         pg == PgRun([rows |-> pgRows, seq |-> pgSeq], reqs[r].call)
     IN  /\ memTasks' = mem.tasks
         /\ nextId' = mem.nextId
         /\ pgRows' = pg.rows
         /\ pgSeq' = pg.seq
         /\ reqs' = [reqs EXCEPT ![r] =
                       [call |-> reqs[r].call, st |-> "ran",
                        at |-> 1 + Cardinality({o \in DOMAIN reqs :
                                                  reqs[o].st # "pending"}),
                        mem |-> mem.res, pg |-> pg.res, pgSeen |-> pgRows]]
  /\ UNCHANGED <<last, prev, pages, lk, issued, watch, held, http, sd>>

NextConc == \E r \in 1..MaxRequests : ConcRun(r)

SpecConc == InitConc /\ [][NextConc]_vars

\* --------------------------------------- list with a sort key of any kind

\* sort values a caller of the repository can pass
AnySortArgs == SortArgs \cup {"bogus"} \cup ObjectPrototypeKeys

AnySortQueries ==
  [limit : {MaxLimit}, offset : {0}, done : {None}, search : {None},
   sort : AnySortArgs, order : OrderArgs]

\* list(q) on the Postgres backend: the statement is run when what follows
\* ORDER BY names a column, and is rejected by the parser when it does not
PgListAnySort(q) ==
  /\ last = Idle
  /\ pages.st = "idle"
  /\ last' = [op |-> "pgListAnySort", q |-> q,
              orderBy |-> PgOrderByText(q.sort, q.order),
              pg |-> IF PgSortColumn(q.sort) \in PgColumns
                     THEN [returned |-> PgList(pgRows, q)]
                     ELSE PgOnRejection("list", "syntax error")]
  /\ UNCHANGED <<memTasks, nextId, pgRows, pgSeq, prev, pages, lk,
                 issued, reqs, watch,
                 held, http, sd>>

NextSort ==
  \/ \E title \in Titles, done \in BOOLEAN : Create(title, done)
  \/ \E id \in IdArgs : Delete(id)
  \/ \E q \in AnySortQueries : PgListAnySort(q)
  \/ Return

SpecSort == Init /\ [][NextSort]_vars

\* ------------------------------- list with arguments of any kind

\* order values a caller of the repository can pass; "undefined" stands for
\* an order that was not given
AnyOrderArgs == OrderArgs \cup {"ASC", "undefined"}

AnyQueries ==
  [limit : {MaxLimit}, offset : {0}, done : {None}, search : {None},
   sort : AnySortArgs, order : AnyOrderArgs]

\* list(q) on both backends with a sort and an order that no validator has
\* looked at
ListAny(q) ==
  /\ last = Idle
  /\ pages.st = "idle"
  /\ last' = [op |-> "listAny", q |-> q,
              mem |-> [returned |-> MemList(memTasks, q)],
              pg |-> IF PgSortColumn(q.sort) \in PgColumns
                     THEN [returned |-> PgList(pgRows, q)]
                     ELSE PgOnRejection("list", "syntax error")]
  /\ memTasks' = MemListStore(memTasks, q)
  /\ UNCHANGED <<nextId, pgRows, pgSeq, prev, pages, lk, issued, reqs, watch, held, http, sd>>

NextAny ==
  \/ \E title \in Titles, done \in BOOLEAN : Create(title, done)
  \/ \E id \in IdArgs : Delete(id)
  \/ \E q \in AnyQueries : ListAny(q)
  \/ Return

SpecAny == Init /\ [][NextAny]_vars

\* ------------------------------------------ the statement list sends

\* list(q) of the Postgres backend up to the call of pool.query: the SQL
\* text and the bound parameters
PgListBuilds(q) ==
  /\ last = Idle
  /\ pages.st = "idle"
  /\ last' = [op |-> "pgStatement", q |-> q, sent |-> PgListStatement(q)]
  /\ UNCHANGED <<memTasks, nextId, pgRows, pgSeq, prev, pages, lk,
                 issued, reqs, watch,
                 held, http, sd>>

NextSql ==
  \/ \E q \in Queries : PgListBuilds(q)
  \/ Return

SpecSql == Init /\ [][NextSql]_vars

\* ------------------------------------------------- a store query that fails

PgMethods == {"list", "getById", "create", "update", "delete"}

\* errors pool.query rejects with when the store cannot be reached
PgErrors == {"ECONNREFUSED", "timeout"}

\* a Postgres repository method whose query is rejected before it ran: the
\* table and the sequence are as they were
PgQueryFails(method, error) ==
  /\ last = Idle
  /\ pages.st = "idle"
  /\ last' = [op |-> "pgFailed", method |-> method, error |-> error,
              queries |-> PgQueryCalls(method),
              pg |-> PgOnRejection(method, error)]
  /\ UNCHANGED <<memTasks, nextId, pgRows, pgSeq, prev, pages, lk,
                 issued, reqs, watch,
                 held, http, sd>>

NextFail ==
  \/ \E title \in Titles, done \in BOOLEAN : Create(title, done)
  \/ \E id \in IdArgs, title \in Titles, done \in BOOLEAN : Update(id, title, done)
  \/ \E id \in IdArgs : Delete(id)
  \/ \E method \in PgMethods, error \in PgErrors : PgQueryFails(method, error)
  \/ Return

SpecFail == Init /\ [][NextFail]_vars

\* --------------------------------------------- a repository built on seeds

\* seed tasks with pairwise distinct ids, in any storage order
SeedTask(id) == [id |-> id, title |-> <<"A", "b">>, done |-> FALSE]

SeedIds ==
  {ids \in UNION {[1..n -> 1..MaxId] : n \in 0..MaxId} :
     \A i, j \in DOMAIN ids : i # j => ids[i] # ids[j]}

Seeds == {[i \in 1..Len(ids) |-> SeedTask(ids[i])] : ids \in SeedIds}

\* new InMemoryTaskRepository(seedTasks), and a table that holds the same
\* rows with its sequence at the highest id
InitSeeded ==
  /\ \E seedTasks \in Seeds :
       /\ memTasks = seedTasks
       /\ nextId = MemInitialNextId(seedTasks)
       /\ pgRows = Range(seedTasks)
       /\ pgSeq = MemMaxId(seedTasks, 0)
       /\ issued = [i \in 1..Len(seedTasks) |-> seedTasks[i].id]
  /\ last = Idle
  /\ prev = NoPrev
  /\ pages = [st |-> "idle"]
  /\ lk = [st |-> "idle"]
  /\ reqs = NoReqs
  /\ watch = Calm
  /\ held = NoHeld
  /\ http = NoHttp
  /\ sd = NoShutdown

NextIds ==
  \/ \E title \in Titles, done \in BOOLEAN : Create(title, done)
  \/ \E id \in IdArgs, title \in Titles, done \in BOOLEAN : Update(id, title, done)
  \/ \E id \in IdArgs : Delete(id)
  \/ Return

SpecIds == InitSeeded /\ [][NextIds]_vars

\* ------------------------------------------------- a pagination traversal

\* a client starts to read the pages of one query, limit rows at a time
StartPages(q) ==
  /\ last = Idle
  /\ pages.st = "idle"
  /\ q.offset = 0
  /\ q.limit >= 1
  /\ pages' = [st |-> "running", q |-> q,
               memOpen |-> TRUE, memItems |-> <<>>, memTotals |-> {},
               pgOpen |-> TRUE, pgItems |-> <<>>, pgTotals |-> {}]
  /\ UNCHANGED <<memTasks, nextId, pgRows, pgSeq, last, prev, lk, issued, reqs, watch,
                 held, http, sd>>

\* the client's next list call, on each backend until that backend has
\* returned an empty page
NextPage ==
  /\ pages.st = "running"
  /\ LET mem == MemList(memTasks, pages.q)
         pg == PgList(pgRows, pages.q)
         memOpen == pages.memOpen /\ mem.items # <<>>
         pgOpen == pages.pgOpen /\ pg.items # <<>>
     IN  pages' =
           [st |-> IF memOpen \/ pgOpen THEN "running" ELSE "done",
            q |-> [pages.q EXCEPT !.offset = pages.q.offset + pages.q.limit],
            memOpen |-> memOpen,
            memItems |-> IF pages.memOpen THEN pages.memItems \o mem.items
                         ELSE pages.memItems,
            memTotals |-> IF pages.memOpen THEN pages.memTotals \cup {mem.total}
                          ELSE pages.memTotals,
            pgOpen |-> pgOpen,
            pgItems |-> IF pages.pgOpen THEN pages.pgItems \o pg.items
                        ELSE pages.pgItems,
            pgTotals |-> IF pages.pgOpen THEN pages.pgTotals \cup {pg.total}
                         ELSE pages.pgTotals]
  /\ UNCHANGED <<memTasks, nextId, pgRows, pgSeq, last, prev, lk, issued, reqs, watch,
                 held, http, sd>>

\* the client is done with the pages it has read
EndPages ==
  /\ pages.st = "done"
  /\ pages' = [st |-> "idle"]
  /\ UNCHANGED <<memTasks, nextId, pgRows, pgSeq, last, prev, lk, issued, reqs, watch,
                 held, http, sd>>

PageQueries ==
  [limit : 1..MaxPageLimit, offset : {0}, done : DoneArgs,
   search : SearchArgs, sort : SortArgs, order : OrderArgs]

NextPages ==
  \/ \E title \in Titles, done \in BOOLEAN : Create(title, done)
  \/ \E id \in IdArgs, title \in Titles, done \in BOOLEAN : Update(id, title, done)
  \/ \E id \in IdArgs : Delete(id)
  \/ Return
  \/ \E q \in PageQueries : StartPages(q)
  \/ NextPage
  \/ EndPages

SpecPages == Init /\ [][NextPages]_vars

\* ------------------------------- a traversal with writes between the pages

\* the writes of the other requests
BetweenCalls ==
  {[op |-> "create", title |-> <<"a", "_">>, done |-> FALSE]}
  \cup {[op |-> "update", id |-> id, title |-> <<"a", "_">>, done |-> TRUE] :
          id \in 1..MaxId}
  \cup {[op |-> "delete", id |-> id] : id \in 1..MaxId}

\* the queries whose pages the client reads
BetweenQueries ==
  [limit : 1..MaxPageLimit, offset : {0}, done : {None, Some(FALSE)},
   search : {None}, sort : {"id", "title"}, order : OrderArgs]

\* between two page calls of the client, a create, update or delete of
\* another request changes the store
BetweenPages(call) ==
  /\ pages.st = "running"
  /\ watch.changes < MaxBetween
  /\ call.op = "create" => (nextId <= MaxId /\ pgSeq < MaxId)
  /\ LET mem == MemRun([tasks |-> memTasks, nextId |-> nextId], call)
         pg == PgRun([rows |-> pgRows, seq |-> pgSeq], call)
     IN  /\ <<mem.tasks, pg.rows>> # <<memTasks, pgRows>>
         /\ memTasks' = mem.tasks
         /\ nextId' = mem.nextId
         /\ pgRows' = pg.rows
         /\ pgSeq' = pg.seq
         /\ issued' = IF call.op = "create"
                       THEN Append(issued, mem.res[1].id) ELSE issued
         /\ watch' = [changes |-> watch.changes + 1,
                      stores |-> watch.stores
                                   \cup {Range(memTasks), Range(mem.tasks)}]
  /\ UNCHANGED <<last, prev, pages, lk, reqs, held, http, sd>>

\* one traversal of a store that holds the seed tasks
NextPagesBetween ==
  \/ \E q \in BetweenQueries : StartPages(q)
  \/ NextPage
  \/ \E call \in BetweenCalls : BetweenPages(call)

SpecPagesBetween == InitSeeded /\ [][NextPagesBetween]_vars

\* ---------------------------------------------------------- the LIKE probe

LikeAlphabet == {"a", "A", "%", "_", "\\"}

StringsUpTo(n) == UNION {[1..k -> LikeAlphabet] : k \in 0..n}

\* a title and a search text that is not empty
InitLike ==
  /\ memTasks = <<>>
  /\ nextId = 1
  /\ pgRows = {}
  /\ pgSeq = 0
  /\ last = Idle
  /\ prev = NoPrev
  /\ pages = [st |-> "idle"]
  /\ issued = <<>>
  /\ reqs = NoReqs
  /\ watch = Calm
  /\ held = NoHeld
  /\ http = NoHttp
  /\ sd = NoShutdown
  /\ \E title \in StringsUpTo(MaxTitleLen),
        search \in StringsUpTo(MaxSearchLen) \ {<<>>} :
       lk = [st |-> "given", title |-> title, search |-> search]

\* the search clause of list on a table that holds the title: the pattern
\* bound to the parameter and whether the row is kept
LikeProbe ==
  /\ lk.st = "given"
  /\ lk' = [st |-> "probed", title |-> lk.title, search |-> lk.search,
            pattern |-> LikePattern(lk.search),
            kept |-> PgWhere({[id |-> 1, title |-> lk.title, done |-> FALSE]},
                             None, Some(lk.search)) # {}]
  /\ UNCHANGED <<memTasks, nextId, pgRows, pgSeq, last, prev, pages,
               issued, reqs, watch,
                 held, http, sd>>

NextLike == LikeProbe

SpecLike == InitLike /\ [][NextLike]_vars

\* ------------------------------------------------- the HTTP layer

\* RATE_LIMIT_MAX, the requests the /v1 rate limiter lets through in one
\* window (100 unless configured), scaled down
RateLimitMax == 2

\* data.limit ?? 20 and data.offset ?? 0 of GET /v1/tasks
DefaultLimit == 20
DefaultOffset == 0
\* isInt({ min: 0, max: 100 }) of the limit parameter
LimitCeiling == 100

\* JavaScript values as request fields and repository arguments carry them
Undefined == [k |-> "undefined"]
Str(s) == [k |-> "string", v |-> s]
Num(n) == [k |-> "number", v |-> n]
Bool(b) == [k |-> "boolean", v |-> b]
\* a repeated query parameter (?limit=1&limit=2) is parsed to an array
Arr(vs) == [k |-> "array", v |-> vs]

DigitChars == <<"0", "1", "2", "3", "4", "5", "6", "7", "8", "9">>
IsDigit(c) == \E d \in 1..Len(DigitChars) : DigitChars[d] = c
DigitValue(c) == (CHOOSE d \in 1..Len(DigitChars) : DigitChars[d] = c) - 1

\* the string express-validator hands to a validator or sanitizer
toString(x) ==
  CASE x.k = "string" -> x.v
    [] x.k = "boolean" -> IF x.v THEN <<"t", "r", "u", "e">>
                          ELSE <<"f", "a", "l", "s", "e">>
    [] x.k = "number" -> <<DigitChars[x.v + 1]>>
    [] OTHER -> <<>>

Unsigned(s) == IF s # <<>> /\ s[1] \in {"-", "+"} THEN Tail(s) ELSE s

RECURSIVE DigitsValue(_)
DigitsValue(s) ==
  IF s = <<>> THEN 0
  ELSE 10 * DigitsValue(SubSeq(s, 1, Len(s) - 1)) + DigitValue(s[Len(s)])

\* parseInt(str, 10) of a string isInt has accepted
parseInt(s) ==
  IF s[1] = "-" THEN 0 - DigitsValue(Unsigned(s)) ELSE DigitsValue(Unsigned(s))

\* validator.js isInt(str, { min, max }): an optional sign and digits,
\* then the bounds; max is None where the route gives none
isInt(s, min, max) ==
  /\ Unsigned(s) # <<>>
  /\ \A i \in 1..Len(Unsigned(s)) : IsDigit(Unsigned(s)[i])
  /\ parseInt(s) >= min
  /\ (max = None \/ parseInt(s) <= max[1])

\* validator.js isBoolean(str) and toBoolean(str)
isBoolean(s) ==
  s \in {<<"t", "r", "u", "e">>, <<"f", "a", "l", "s", "e">>, <<"1">>, <<"0">>}
toBoolean(s) == s \notin {<<"0">>, <<"f", "a", "l", "s", "e">>, <<>>}

\* validator.js trim(str)
RECURSIVE trimStart(_)
trimStart(s) == IF s # <<>> /\ s[1] = " " THEN trimStart(Tail(s)) ELSE s
RECURSIVE trimEnd(_)
trimEnd(s) ==
  IF s # <<>> /\ s[Len(s)] = " " THEN trimEnd(SubSeq(s, 1, Len(s) - 1)) ELSE s
trim(s) == trimEnd(trimStart(s))

\* A standard validator of a chain checks every element of an array value,
\* and a standard sanitizer replaces every element: the strings a chain
\* item is run on, and the value it leaves from the converted elements
Elements(x) ==
  IF x.k = "array" THEN [i \in 1..Len(x.v) |-> toString(x.v[i])]
  ELSE <<toString(x)>>
Sanitized(x, converted) == IF x.k = "array" THEN Arr(converted) ELSE converted[1]

\* query("limit").optional().isInt({ min: 0, max: 100 }).toInt()
LimitValid(x) ==
  x = Undefined
  \/ \A i \in 1..Len(Elements(x)) : isInt(Elements(x)[i], 0, Some(LimitCeiling))
\* query("offset").optional().isInt({ min: 0 }).toInt()
OffsetValid(x) ==
  x = Undefined \/ \A i \in 1..Len(Elements(x)) : isInt(Elements(x)[i], 0, None)
\* query("done").optional().isBoolean().toBoolean()
DoneQueryValid(x) ==
  x = Undefined \/ \A i \in 1..Len(Elements(x)) : isBoolean(Elements(x)[i])
\* query("sort").optional().isIn(["id", "title", "done"])
SortValid(x) ==
  x = Undefined \/ \A i \in 1..Len(Elements(x)) : Elements(x)[i] \in SortArgs
\* query("order").optional().isIn(["asc", "desc"])
OrderValid(x) ==
  x = Undefined \/ \A i \in 1..Len(Elements(x)) : Elements(x)[i] \in OrderArgs
\* param("id").isInt({ min: 1 }).toInt()
IdValid(x) == \A i \in 1..Len(Elements(x)) : isInt(Elements(x)[i], 1, None)
\* body("title").isString().trim().notEmpty()
TitleValid(x) == x.k = "string" /\ trim(x.v) # <<>>
\* body("done").isBoolean().toBoolean()
DoneBodyValid(x) == \A i \in 1..Len(Elements(x)) : isBoolean(Elements(x)[i])

ToIntValue(x) ==
  IF x = Undefined THEN Undefined
  ELSE Sanitized(x, [i \in 1..Len(Elements(x)) |-> Num(parseInt(Elements(x)[i]))])
ToBooleanValue(x) ==
  IF x = Undefined THEN Undefined
  ELSE Sanitized(x, [i \in 1..Len(Elements(x)) |-> Bool(toBoolean(Elements(x)[i]))])

\* the fields of GET /v1/tasks that fail their chain
ListErrors(rq) ==
  {f \in {"limit", "offset", "done", "sort", "order"} :
     CASE f = "limit" -> ~LimitValid(rq.limit)
       [] f = "offset" -> ~OffsetValid(rq.offset)
       [] f = "done" -> ~DoneQueryValid(rq.done)
       [] f = "sort" -> ~SortValid(rq.sort)
       [] f = "order" -> ~OrderValid(rq.order)}

\* the fields of a task payload that fail their chain
PayloadErrors(rq) ==
  {f \in {"title", "done"} :
     CASE f = "title" -> ~TitleValid(rq.title)
       [] f = "done" -> ~DoneBodyValid(rq.done)}

IdErrors(rq) == IF IdValid(rq.id) THEN {} ELSE {"id"}

\* the arguments the GET /v1/tasks handler makes of the validated query
ListArgs(rq) ==
  LET limit == ToIntValue(rq.limit)
      offset == ToIntValue(rq.offset)
      search == IF rq.search.k = "string" THEN trim(rq.search.v) ELSE <<>>
  IN  [limit |-> IF limit = Undefined THEN Num(DefaultLimit) ELSE limit,
       offset |-> IF offset = Undefined THEN Num(DefaultOffset) ELSE offset,
       done |-> ToBooleanValue(rq.done),
       search |-> IF Len(search) > 0 THEN Str(search) ELSE Undefined,
       sort |-> IF rq.sort = Undefined THEN Str("id") ELSE rq.sort,
       order |-> IF rq.order = Undefined THEN Str("asc") ELSE rq.order]

\* the arguments as the repository methods above take them
Optional(x) == IF x = Undefined THEN None ELSE Some(x.v)
ToQuery(args) ==
  [limit |-> args.limit.v, offset |-> args.offset.v, done |-> Optional(args.done),
   search |-> Optional(args.search), sort |-> args.sort.v, order |-> args.order.v]

\* JSend helpers
sendSuccess(data, statusCode) ==
  [status |-> statusCode, body |-> [status |-> "success", data |-> data]]
sendFail(statusCode, message, details) ==
  [status |-> statusCode,
   body |-> [status |-> "fail", code |-> statusCode, message |-> message,
             details |-> details]]
sendError(statusCode, message) ==
  [status |-> statusCode, body |-> [status |-> "error", message |-> message]]

\* validate(validations, message) when a chain has failed
validate(message, errors) ==
  [calls |-> <<>>, res |-> sendFail(400, message, Some(errors))]

\* handler of v1RateLimiter
TooManyRequests ==
  [calls |-> <<>>,
   res |-> sendFail(429, "Too many requests, please try again later.", None)]

\* the /v1 error handler, reached by next(err)
InternalServerError == sendError(500, "Internal server error")

Thrown(r) == "thrown" \in DOMAIN r

\* No exchange yet
NoRequest == [route |-> "none"]
NoResponse == [status |-> 0]

\* The app after the module has loaded: the in-memory repository when no
\* DATABASE_URL is configured, else the Postgres repository over a pool.
\* db is whether the database answers queries ("none": there is none).
InitHttp ==
  /\ memTasks = <<>>
  /\ nextId = 1
  /\ pgRows = {}
  /\ pgSeq = 0
  /\ last = Idle
  /\ prev = NoPrev
  /\ pages = [st |-> "idle"]
  /\ lk = [st |-> "idle"]
  /\ issued = <<>>
  /\ reqs = NoReqs
  /\ watch = Calm
  /\ held = NoHeld
  /\ sd = NoShutdown
  /\ http \in {[st |-> "up", mode |-> "memory", db |-> "none", hits |-> 0,
                req |-> NoRequest, calls |-> <<>>, res |-> NoResponse],
               [st |-> "up", mode |-> "postgres", db |-> "up", hits |-> 0,
                req |-> NoRequest, calls |-> <<>>, res |-> NoResponse]}

\* taskRepo.list as the app's repository answers it. An array as limit or
\* offset makes offset + limit a string that is no number: slice takes it
\* as 0 and the page is empty; the Postgres driver sends the array as an
\* array literal, which the server refuses for LIMIT.
RepoList(args) ==
  LET numeric == args.limit.k = "number" /\ args.offset.k = "number"
  IN  IF http.mode = "memory"
      THEN IF numeric THEN [returned |-> MemList(memTasks, ToQuery(args))]
           ELSE [returned |->
                   [items |-> <<>>,
                    total |-> Len(MemFilter(memTasks, Optional(args.done),
                                            Optional(args.search)))]]
      ELSE IF http.db = "down" THEN PgOnRejection("list", "ECONNREFUSED")
      ELSE IF ~numeric THEN PgOnRejection("list", "invalid input syntax")
      ELSE [returned |-> PgList(pgRows, ToQuery(args))]

RepoGetById(id) ==
  IF http.mode = "memory" THEN [returned |-> MemGetById(memTasks, id)]
  ELSE IF http.db = "down" THEN PgOnRejection("getById", "ECONNREFUSED")
  ELSE [returned |-> PgGetById(pgRows, id)]

RepoCreate(title, done) ==
  IF http.mode = "memory"
  THEN [returned |-> [id |-> MemCreateId(memTasks, nextId),
                      title |-> title, done |-> done]]
  ELSE IF http.db = "down" THEN PgOnRejection("create", "ECONNREFUSED")
  ELSE [returned |-> [id |-> pgSeq + 1, title |-> title, done |-> done]]

RepoUpdate(id, title, done) ==
  IF http.mode = "memory"
  THEN [returned |-> MemUpdateResult(memTasks, id, title, done)]
  ELSE IF http.db = "down" THEN PgOnRejection("update", "ECONNREFUSED")
  ELSE [returned |-> PgUpdateResult(pgRows, id, title, done)]

RepoDelete(id) ==
  IF http.mode = "memory"
  THEN [returned |-> MemDeleteResult(memTasks, MemDelete(memTasks, id))]
  ELSE IF http.db = "down" THEN PgOnRejection("delete", "ECONNREFUSED")
  ELSE [returned |-> PgDeleteResult(pgRows, PgDelete(pgRows, id))]

\* offset + items.length < total
HasMore(offset, returned, total) ==
  IF offset.k = "number" THEN offset.v + returned < total ELSE FALSE

\* the response of GET /v1/tasks to what list returned
AnswerList(r, args) ==
  IF Thrown(r) THEN InternalServerError
  ELSE sendSuccess(
         [items |-> r.returned.items,
          page |-> [limit |-> args.limit, offset |-> args.offset,
                    total |-> r.returned.total,
                    returned |-> Len(r.returned.items),
                    hasMore |-> HasMore(args.offset, Len(r.returned.items),
                                        r.returned.total)],
          filters |-> [done |-> args.done, search |-> args.search],
          sort |-> [field |-> args.sort, order |-> args.order]], 200)

\* the response of GET and PUT /v1/tasks/:id to the task or null
AnswerTask_NullIsSuccess(r) ==
  IF Thrown(r) THEN InternalServerError
  ELSE sendSuccess(r.returned, 200)

AnswerTask(r) ==
  IF Thrown(r) THEN InternalServerError
  ELSE IF r.returned = None THEN sendFail(404, "Task not found.", None)
  ELSE sendSuccess(r.returned[1], 200)

\* the response of POST /v1/tasks
AnswerCreated(r) ==
  IF Thrown(r) THEN InternalServerError ELSE sendSuccess(r.returned, 201)

\* the response of DELETE /v1/tasks/:id
AnswerDeleted(r) ==
  IF Thrown(r) THEN InternalServerError
  ELSE IF ~r.returned THEN sendFail(404, "Task not found.", None)
  ELSE sendSuccess([deleted |-> TRUE], 200)

\* the response of GET /health to the pool and its probe query
AnswerHealth_IgnoresProbe(pool, probeFails) ==
  sendSuccess([status |-> "ok",
               db |-> [status |-> "ok",
                       mode |-> IF pool THEN "postgres" ELSE "memory"]], 200)

AnswerHealth(pool, probeFails) ==
  IF pool /\ probeFails THEN sendError(503, "Service unavailable")
  ELSE sendSuccess([status |-> "ok",
                    db |-> [status |-> "ok",
                            mode |-> IF pool THEN "postgres" ELSE "memory"]], 200)

\* v1RateLimiter: the request is counted, and refused past the limit
Limited == http.hits >= RateLimitMax
Counted == Min(http.hits + 1, RateLimitMax + 1)

\* GET /v1/tasks
ListTasks(rq) ==
  /\ http.st = "up"
  /\ http.req = NoRequest
  /\ LET args == ListArgs(rq)
         out == IF Limited THEN TooManyRequests
                ELSE IF ListErrors(rq) # {}
                THEN validate("Invalid query parameters.", ListErrors(rq))
                ELSE [calls |-> <<[method |-> "list", args |-> args,
                                   result |-> RepoList(args)]>>,
                      res |-> AnswerList(RepoList(args), args)]
     IN  http' = [http EXCEPT !.hits = Counted,
                              !.req = [route |-> "GET /v1/tasks", query |-> rq],
                              !.calls = out.calls, !.res = out.res]
  /\ UNCHANGED <<memTasks, nextId, pgRows, pgSeq, last, prev, pages, lk,
                 issued, reqs, watch, held, sd>>

\* GET /v1/tasks/:id
GetTask(rq) ==
  /\ http.st = "up"
  /\ http.req = NoRequest
  /\ LET id == parseInt(rq.id.v)
         out == IF Limited THEN TooManyRequests
                ELSE IF IdErrors(rq) # {}
                THEN validate("Invalid task id.", IdErrors(rq))
                ELSE [calls |-> <<[method |-> "getById", id |-> Num(id),
                                   result |-> RepoGetById(id)]>>,
                      res |-> AnswerTask(RepoGetById(id))]
     IN  http' = [http EXCEPT !.hits = Counted,
                              !.req = [route |-> "GET /v1/tasks/:id", params |-> rq],
                              !.calls = out.calls, !.res = out.res]
  /\ UNCHANGED <<memTasks, nextId, pgRows, pgSeq, last, prev, pages, lk,
                 issued, reqs, watch, held, sd>>

\* POST /v1/tasks
PostTask(rq) ==
  /\ http.st = "up"
  /\ http.req = NoRequest
  /\ LET reaches == ~Limited /\ PayloadErrors(rq) = {}
         title == trim(rq.title.v)
         done == ToBooleanValue(rq.done)
         r == RepoCreate(title, done.v)
         out == IF Limited THEN TooManyRequests
                ELSE IF PayloadErrors(rq) # {}
                THEN validate("Invalid task payload.", PayloadErrors(rq))
                ELSE [calls |-> <<[method |-> "create", title |-> Str(title),
                                   done |-> done, result |-> r]>>,
                      res |-> AnswerCreated(r)]
         stores == reaches /\ ~Thrown(r)
     IN  /\ reaches => (nextId <= MaxId /\ pgSeq < MaxId)
         /\ http' = [http EXCEPT !.hits = Counted,
                                 !.req = [route |-> "POST /v1/tasks", body |-> rq],
                                 !.calls = out.calls, !.res = out.res]
         /\ IF stores /\ http.mode = "memory"
            THEN /\ memTasks' = Append(memTasks, r.returned)
                 /\ nextId' = nextId + 1
                 /\ issued' = Append(issued, r.returned.id)
            ELSE UNCHANGED <<memTasks, nextId, issued>>
         /\ IF stores /\ http.mode = "postgres"
            THEN /\ pgRows' = pgRows \cup {r.returned}
                 /\ pgSeq' = pgSeq + 1
            ELSE UNCHANGED <<pgRows, pgSeq>>
  /\ UNCHANGED <<last, prev, pages, lk, reqs, watch, held, sd>>

\* PUT /v1/tasks/:id
PutTask(rq) ==
  /\ http.st = "up"
  /\ http.req = NoRequest
  /\ LET errors == IdErrors(rq) \cup PayloadErrors(rq)
         reaches == ~Limited /\ errors = {}
         id == parseInt(rq.id.v)
         title == trim(rq.title.v)
         done == ToBooleanValue(rq.done)
         r == RepoUpdate(id, title, done.v)
         out == IF Limited THEN TooManyRequests
                ELSE IF errors # {} THEN validate("Invalid task payload.", errors)
                ELSE [calls |-> <<[method |-> "update", id |-> Num(id),
                                   title |-> Str(title), done |-> done,
                                   result |-> r]>>,
                      res |-> AnswerTask(r)]
         stores == reaches /\ ~Thrown(r)
     IN  /\ http' = [http EXCEPT !.hits = Counted,
                                 !.req = [route |-> "PUT /v1/tasks/:id",
                                          params |-> rq, body |-> rq],
                                 !.calls = out.calls, !.res = out.res]
         /\ memTasks' = IF stores /\ http.mode = "memory"
                        THEN MemUpdate(memTasks, id, title, done.v) ELSE memTasks
         /\ pgRows' = IF stores /\ http.mode = "postgres"
                      THEN PgUpdate(pgRows, id, title, done.v) ELSE pgRows
  /\ UNCHANGED <<nextId, pgSeq, last, prev, pages, lk, issued, reqs, watch, held, sd>>

\* DELETE /v1/tasks/:id
DeleteTask(rq) ==
  /\ http.st = "up"
  /\ http.req = NoRequest
  /\ LET reaches == ~Limited /\ IdErrors(rq) = {}
         id == parseInt(rq.id.v)
         r == RepoDelete(id)
         out == IF Limited THEN TooManyRequests
                ELSE IF IdErrors(rq) # {}
                THEN validate("Invalid task id.", IdErrors(rq))
                ELSE [calls |-> <<[method |-> "delete", id |-> Num(id), result |-> r]>>,
                      res |-> AnswerDeleted(r)]
         stores == reaches /\ ~Thrown(r)
     IN  /\ http' = [http EXCEPT !.hits = Counted,
                                 !.req = [route |-> "DELETE /v1/tasks/:id",
                                          params |-> rq],
                                 !.calls = out.calls, !.res = out.res]
         /\ memTasks' = IF stores /\ http.mode = "memory"
                        THEN MemDelete(memTasks, id) ELSE memTasks
         /\ pgRows' = IF stores /\ http.mode = "postgres"
                      THEN PgDelete(pgRows, id) ELSE pgRows
  /\ UNCHANGED <<nextId, pgSeq, last, prev, pages, lk, issued, reqs, watch, held, sd>>

\* GET /health: pool.query("SELECT 1;") fails when the database is down
GetHealth ==
  /\ http.st = "up"
  /\ http.req = NoRequest
  /\ http' = [http EXCEPT !.req = [route |-> "GET /health"],
                          !.calls = <<>>,
                          !.res = AnswerHealth(http.mode = "postgres",
                                               http.db = "down")]
  /\ UNCHANGED <<memTasks, nextId, pgRows, pgSeq, last, prev, pages, lk,
                 issued, reqs, watch, held, sd>>

\* GET /
GetRoot ==
  /\ http.st = "up"
  /\ http.req = NoRequest
  /\ http' = [http EXCEPT !.req = [route |-> "GET /"],
                          !.calls = <<>>,
                          !.res = sendSuccess([status |-> "ok"], 200)]
  /\ UNCHANGED <<memTasks, nextId, pgRows, pgSeq, last, prev, pages, lk,
                 issued, reqs, watch, held, sd>>

\* the database goes away or comes back
DatabaseFlips ==
  /\ http.st = "up"
  /\ http.req = NoRequest
  /\ http.mode = "postgres"
  /\ http' = [http EXCEPT !.db = IF http.db = "up" THEN "down" ELSE "up"]
  /\ UNCHANGED <<memTasks, nextId, pgRows, pgSeq, last, prev, pages, lk,
                 issued, reqs, watch, held, sd>>

\* windowMs has passed: the rate limiter starts counting anew
WindowElapses ==
  /\ http.st = "up"
  /\ http.req = NoRequest
  /\ http.hits > 0
  /\ http' = [http EXCEPT !.hits = 0]
  /\ UNCHANGED <<memTasks, nextId, pgRows, pgSeq, last, prev, pages, lk,
                 issued, reqs, watch, held, sd>>

\* the response has been written (res.json): the exchange is over
ResponseSent ==
  /\ http.st = "up"
  /\ http.req # NoRequest
  /\ http' = [http EXCEPT !.req = NoRequest, !.calls = <<>>, !.res = NoResponse]
  /\ UNCHANGED <<memTasks, nextId, pgRows, pgSeq, last, prev, pages, lk,
                 issued, reqs, watch, held, sd>>

Chars(n) == Str(<<DigitChars[n + 1]>>)

\* query strings of GET /v1/tasks: every field absent or valid, or one
\* field out of range, malformed or repeated
ValidListRequests ==
  [limit : {Undefined, Chars(0), Chars(MaxLimit), Str(<<"1", "0", "0">>)},
   offset : {Undefined, Chars(1)},
   done : {Undefined, Str(<<"t", "r", "u", "e">>)},
   sort : {Undefined, Str("title")},
   order : {Undefined, Str("desc")},
   search : {Undefined, Str(<<" ", "b">>)}]

NoQuery ==
  [limit |-> Undefined, offset |-> Undefined, done |-> Undefined,
   sort |-> Undefined, order |-> Undefined, search |-> Undefined]

FaultyListRequests ==
  {[NoQuery EXCEPT !.limit = x] :
     x \in {Str(<<"1", "0", "1">>), Str(<<"-", "1">>), Str(<<"a">>), Str(<<>>),
            Arr(<<Str(<<"1">>), Str(<<"2">>)>>)}}
  \cup {[NoQuery EXCEPT !.offset = Str(<<"-", "1">>)],
        [NoQuery EXCEPT !.done = Str(<<"y">>)],
        [NoQuery EXCEPT !.sort = Str("bogus")],
        [NoQuery EXCEPT !.order = Str("up")]}

ListRequests == ValidListRequests \cup FaultyListRequests

IdRequests ==
  {[id |-> x] :
     x \in {Chars(i) : i \in 0..MaxId}
           \cup {Str(<<"0", "1">>), Str(<<"-", "1">>), Str(<<"a">>)}}

Payloads ==
  [title : {Str(<<" ", "a", " ">>), Str(<<"A", "b">>)},
   done : {Bool(TRUE), Bool(FALSE), Str(<<"0">>)}]
  \cup {[title |-> x, done |-> Bool(TRUE)] : x \in {Str(<<" ">>), Num(1), Undefined}}
  \cup {[title |-> Str(<<"A", "b">>), done |-> x] : x \in {Str(<<"y">>), Undefined}}

PutRequests ==
  {[id |-> i.id, title |-> p.title, done |-> p.done] : i \in IdRequests, p \in Payloads}

NextHttp ==
  \/ \E rq \in ListRequests : ListTasks(rq)
  \/ \E rq \in IdRequests : GetTask(rq)
  \/ \E rq \in Payloads : PostTask(rq)
  \/ \E rq \in PutRequests : PutTask(rq)
  \/ \E rq \in IdRequests : DeleteTask(rq)
  \/ GetHealth
  \/ GetRoot
  \/ ResponseSent
  \/ DatabaseFlips
  \/ WindowElapses

SpecHttp == InitHttp /\ [][NextHttp]_vars

\* ------------------------------------------------- graceful shutdown

\* signals the process receives, requests being handled at once, and
\* pool clients checked out at once
MaxSignals == 2
MaxConns == 2
MaxBusy == 1

Signals == {"SIGTERM", "SIGINT"}

\* The process once the module has loaded: with a listening server
\* (require.main === module) or none, with a pool or none. server is
\* "listening", "closing" (no new connections, requests still being
\* handled), "closed" or "none"; closeCbs are the callbacks waiting for the
\* server's 'close' event, each with whether it will be handed an error;
\* waiting are the performShutdown calls awaiting pgPool.end(), each with
\* its closeErr; ready are those whose await has settled, in order.
InitShutdown ==
  /\ memTasks = <<>>
  /\ nextId = 1
  /\ pgRows = {}
  /\ pgSeq = 0
  /\ last = Idle
  /\ prev = NoPrev
  /\ pages = [st |-> "idle"]
  /\ lk = [st |-> "idle"]
  /\ issued = <<>>
  /\ reqs = NoReqs
  /\ watch = Calm
  /\ held = NoHeld
  /\ http = NoHttp
  /\ \E server \in {"none", "listening"}, pool \in {"none", "open"} :
       sd = [st |-> "up", server |-> server, pool |-> pool, conns |-> 0,
             busy |-> 0, signals |-> <<>>, timers |-> 0, closeCbs |-> <<>>,
             waiting |-> <<>>, ready |-> <<>>, exit |-> None, forced |-> FALSE]

\* process.exit(closeErr ? 1 : 0)
ExitCode(closeErr) == IF closeErr THEN 1 ELSE 0

\* performShutdown(closeErr) up to the end of its await. Without a pool it
\* exits at once. pgPool.end() on an open pool resolves at once when no
\* client is checked out, else when the last one is released; on a pool
\* already ending it rejects at once, which the catch swallows.
performShutdown(s, closeErr) ==
  IF s.exit # None THEN s
  ELSE IF s.pool = "none" THEN [s EXCEPT !.exit = Some(ExitCode(closeErr))]
  ELSE IF s.pool = "open"
  THEN IF s.busy = 0
       THEN [s EXCEPT !.pool = "ended", !.ready = Append(@, closeErr)]
       ELSE [s EXCEPT !.pool = "ending", !.waiting = Append(@, closeErr)]
  ELSE [s EXCEPT !.ready = Append(@, closeErr)]

\* the server's 'close' event: every callback of server.close runs, in the
\* order of the calls
RECURSIVE EmitClose(_, _)
EmitClose(s, cbs) ==
  IF cbs = <<>> THEN s
  ELSE EmitClose(performShutdown(s, Head(cbs)), Tail(cbs))

\* the awaits that have settled continue, first settled first: the finally
\* block of the first one ends the process
Continue(s) ==
  IF s.exit = None /\ s.ready # <<>>
  THEN [s EXCEPT !.exit = Some(ExitCode(Head(s.ready))), !.ready = <<>>]
  ELSE [s EXCEPT !.ready = <<>>]

\* gracefulShutdown(signal): arm the 30 s timer; without a server shut
\* down at once, else server.close(callback). close on a server that is
\* not listening any more hands its callback ERR_SERVER_NOT_RUNNING.
gracefulShutdown(s, signal) ==
  LET armed == [s EXCEPT !.signals = Append(@, signal), !.timers = @ + 1]
  IN  IF s.server = "none" THEN Continue(performShutdown(armed, FALSE))
      ELSE IF s.server = "listening"
      THEN IF s.conns = 0
           THEN Continue(EmitClose([armed EXCEPT !.server = "closed"], <<FALSE>>))
           ELSE [armed EXCEPT !.server = "closing", !.closeCbs = <<FALSE>>]
      ELSE IF s.server = "closing"
      THEN [armed EXCEPT !.closeCbs = Append(@, TRUE)]
      ELSE Continue(EmitClose(armed, <<TRUE>>))

Others ==
  <<memTasks, nextId, pgRows, pgSeq, last, prev, pages, lk, issued, reqs, watch,
    held, http>>

Running == sd.st = "up" /\ sd.exit = None

\* process.on("SIGTERM" / "SIGINT")
Signal(signal) ==
  /\ Running
  /\ Len(sd.signals) < MaxSignals
  /\ sd' = gracefulShutdown(sd, signal)
  /\ UNCHANGED Others

\* a client connects and its request is being handled
RequestArrives ==
  /\ Running
  /\ sd.server = "listening"
  /\ sd.conns < MaxConns
  /\ sd' = [sd EXCEPT !.conns = @ + 1]
  /\ UNCHANGED Others

\* a request is answered or its client goes away; the last one of a
\* closing server lets the server emit 'close'
RequestEnds ==
  /\ Running
  /\ sd.conns > 0
  /\ sd' = IF sd.server = "closing" /\ sd.conns = 1
           THEN Continue(EmitClose([sd EXCEPT !.conns = 0, !.server = "closed",
                                               !.closeCbs = <<>>],
                                   sd.closeCbs))
           ELSE [sd EXCEPT !.conns = @ - 1]
  /\ UNCHANGED Others

\* a handler's query checks a client out of the pool
QueryStarts ==
  /\ Running
  /\ sd.pool = "open"
  /\ sd.conns > 0
  /\ sd.busy < MaxBusy
  /\ sd' = [sd EXCEPT !.busy = @ + 1]
  /\ UNCHANGED Others

\* the query returns and its client is released; the last one of an
\* ending pool resolves the pending pgPool.end()
QueryEnds ==
  /\ Running
  /\ sd.busy > 0
  /\ sd' = IF sd.pool = "ending" /\ sd.busy = 1
           THEN Continue([sd EXCEPT !.busy = 0, !.pool = "ended",
                                    !.ready = sd.waiting, !.waiting = <<>>])
           ELSE [sd EXCEPT !.busy = @ - 1]
  /\ UNCHANGED Others

\* the 30 s timer of a gracefulShutdown call fires: process.exit(1)
TimerFires ==
  /\ Running
  /\ sd.timers > 0
  /\ sd' = [sd EXCEPT !.exit = Some(1), !.forced = TRUE]
  /\ UNCHANGED Others

NextShutdown ==
  \/ \E signal \in Signals : Signal(signal)
  \/ RequestArrives
  \/ RequestEnds
  \/ QueryStarts
  \/ QueryEnds
  \/ TimerFires

\* a timer that is armed fires unless the process has exited before
SpecShutdown == InitShutdown /\ [][NextShutdown]_vars /\ WF_vars(TimerFires)

\* ------------------------------------------------- what the contract says

SameIgnoringCase(c, d) == c = d \/ {c, d} = {"a", "A"} \/ {c, d} = {"b", "B"}

\* title contains search, letter case ignored
ContainsIgnoringCase(title, search) ==
  \E k \in 0..(Len(title) - Len(search)) :
    \A j \in 1..Len(search) : SameIgnoringCase(title[k + j], search[j])

\* task t satisfies every filter that query q carries
Matches(t, q) ==
  /\ (q.done # None => t.done = q.done[1])
  /\ (q.search # None /\ q.search[1] # <<>>
        => ContainsIgnoringCase(t.title, q.search[1]))

\* a comes before b: by the sort field in the direction of order, ties by
\* ascending id
Precedes(a, b, sort, order) ==
  IF a[sort] = b[sort] THEN a.id < b.id
  ELSE IF order = "asc" THEN JsLess(a[sort], b[sort], sort)
  ELSE JsLess(b[sort], a[sort], sort)

\* the tasks of set S that match q, in the order q asks for
Expected(S, q) ==
  LET M == {t \in S : Matches(t, q)}
  IN  CHOOSE s \in [1..Cardinality(M) -> M] :
        /\ Range(s) = M
        /\ \A i, j \in 1..Len(s) : i < j => Precedes(s[i], s[j], q.sort, q.order)

\* the number of rows a page holds when n rows match
PageLength(n, q) == Max(0, Min(q.limit, n - q.offset))

IsCall(c) == c.op \in {"create", "update", "delete", "getById", "list"}

\* C1: every call returns the same result on the in-memory and on the
\* Postgres backend: the same items in the same order, the same total, the
\* same task, null or boolean.
C1_BackendsAgree == IsCall(last) => last.mem = last.pg

\* ties on the sort field are in ascending id order in items
TiesAscendingId(items, sort) ==
  \A i, j \in 1..Len(items) :
    i < j /\ items[i][sort] = items[j][sort] => items[i].id < items[j].id

\* C2: on either backend, two returned tasks with equal values in the sort
\* field appear in ascending id order, for every sort field and for both
\* orders.
C2_TieBreakAscendingId ==
  last.op = "list" =>
    /\ TiesAscendingId(last.mem.items, last.q.sort)
    /\ TiesAscendingId(last.pg.items, last.q.sort)

\* a descending list by title has returned two tasks with the same title
C2_Witness ==
  /\ last.op = "list"
  /\ last.q.order = "desc"
  /\ last.q.sort = "title"
  /\ Len(last.mem.items) = 2
  /\ last.mem.items[1].title = last.mem.items[2].title
  /\ Len(last.pg.items) = 2
  /\ last.pg.items[1].title = last.pg.items[2].title

\* C3: with the store unchanged, the pages read at offsets 0, limit,
\* 2*limit, ... up to the first empty page hold, put together, exactly the
\* matching tasks in sorted order, and every page reports the same total, on
\* either backend.
C3_PagesCoverAll ==
  pages.st = "done" =>
    LET q == pages.q
        mem == Expected(Range(memTasks), q)
        pg == Expected(pgRows, q)
    IN  /\ pages.memItems = mem
        /\ pages.memTotals = {Len(mem)}
        /\ pages.pgItems = pg
        /\ pages.pgTotals = {Len(pg)}

\* C4: on the Postgres backend the total of list is the number of tasks
\* that match the filters, whatever the limit and the offset, also when the
\* page is empty.
C4_PgTotalCountsMatches ==
  last.op = "list" =>
    last.pg.total = Cardinality({r \in pgRows : Matches(r, last.q)})

\* C5: on the in-memory backend the total of list is the size of the
\* filtered set, and items holds exactly the positions offset .. offset +
\* limit - 1 of the filtered, sorted sequence: at most limit tasks, none when
\* offset is at or past the total.
C5_MemTotalAndPage ==
  last.op = "list" =>
    LET q == last.q
        full == Expected(Range(memTasks), q)
        items == last.mem.items
    IN  /\ last.mem.total = Len(full)
        /\ Len(items) = PageLength(Len(full), q)
        /\ Len(items) <= q.limit
        /\ \A i \in 1..Len(items) : items[i] = full[q.offset + i]
        /\ (q.offset >= last.mem.total => items = <<>>)

\* a list past the end of a filtered set that is not empty
C5_Witness ==
  /\ last.op = "list"
  /\ last.q.limit >= 1
  /\ last.q.offset >= last.mem.total
  /\ last.mem.total >= 1
  /\ last.mem.total < Len(memTasks)
  /\ last.mem.items = <<>>

\* items holds PageLength distinct tasks of M
ItemsFrom(items, M, q) ==
  /\ Range(items) \subseteq M
  /\ Cardinality(Range(items)) = Len(items)
  /\ Len(items) = PageLength(Cardinality(M), q)

C7_SearchIsLiteral ==
  lk.st = "probed" => (lk.kept <=> ContainsIgnoringCase(lk.title, lk.search))

\* a search text made of a backslash and an underscore found in a title,
\* its pattern holding each of them behind an escaping backslash
C7_Witness ==
  /\ lk.st = "probed"
  /\ lk.search = <<"\\", "_">>
  /\ lk.title = <<"A", "\\", "_">>
  /\ lk.pattern = <<"%", "\\", "\\", "\\", "_", "%">>
  /\ lk.kept

\* the call before last was op, on a task that existed, and the last call is
\* a getById of the same id
ReadBack(op) ==
  /\ last.op = "getById"
  /\ prev.op = op
  /\ last.id = IF op = "create" THEN prev.mem.id ELSE prev.id

\* C8: on either backend a getById right after create returns the created
\* task (same id, title and done as given), right after update of an
\* existing id it returns that id with the new title and done, and right
\* after delete of an existing id it returns null.
C8_RoundTrip ==
  /\ ReadBack("create") =>
       /\ prev.mem = [id |-> last.id, title |-> prev.title, done |-> prev.done]
       /\ last.mem = Some(prev.mem)
       /\ prev.pg = [id |-> last.id, title |-> prev.title, done |-> prev.done]
       /\ last.pg = Some(prev.pg)
  /\ ReadBack("update") =>
       LET new == [id |-> prev.id, title |-> prev.title, done |-> prev.done]
       IN  /\ prev.memHad => prev.mem = Some(new) /\ last.mem = Some(new)
           /\ prev.pgHad => prev.pg = Some(new) /\ last.pg = Some(new)
  /\ ReadBack("delete") =>
       /\ prev.memHad => last.mem = None
       /\ prev.pgHad => last.pg = None

\* a getById right after an update that changed the title and the done of
\* one of two stored tasks
C8_Witness ==
  /\ ReadBack("update")
  /\ prev.memHad
  /\ prev.pgHad
  /\ Len(memTasks) = 2
  /\ \E i \in 1..2 :
       /\ memTasks[i].id # last.id
       /\ memTasks[i].title # prev.title
       /\ memTasks[i].done # prev.done
  /\ last.mem # None

\* C9: on either backend delete returns true exactly when a task with the
\* id was stored right before the call, so a second delete of the same id
\* right after a delete that returned true returns false.
C9_DeleteReportsRemoval ==
  /\ last.op = "delete" =>
       /\ last.mem = last.memHad
       /\ last.pg = last.pgHad
  /\ (last.op = "delete" /\ prev.op = "delete" /\ prev.id = last.id) =>
       /\ prev.memHad => prev.mem = TRUE /\ last.mem = FALSE
       /\ prev.pgHad => prev.pg = TRUE /\ last.pg = FALSE

\* the same id deleted twice in a row, true and then false, the other task
\* still stored
C9_Witness ==
  /\ last.op = "delete"
  /\ prev.op = "delete"
  /\ prev.id = last.id
  /\ prev.mem = TRUE
  /\ prev.pg = TRUE
  /\ last.mem = FALSE
  /\ last.pg = FALSE
  /\ Len(memTasks) = 1
  /\ Cardinality(pgRows) = 1

\* the result that stands for "no such task"
Absent(c, res) == IF c.op = "delete" THEN res = FALSE ELSE res = None

\* C10: on either backend getById, update and delete of an id that no
\* stored task has return null, null and false and leave the store (the
\* tasks and the id counter) as it was; update adds no task.
C10_MissingIdLeavesStore ==
  [][(last = Idle /\ last'.op \in {"getById", "update", "delete"}) =>
       /\ ~last'.memHad =>
            /\ Absent(last', last'.mem)
            /\ memTasks' = memTasks
            /\ nextId' = nextId
       /\ ~last'.pgHad =>
            /\ Absent(last', last'.pg)
            /\ pgRows' = pgRows
            /\ pgSeq' = pgSeq]_vars

\* an update of an id that no task has, with a task stored, has returned null
C10_Witness ==
  /\ last.op = "update"
  /\ last.id \in 1..MaxId
  /\ ~last.memHad
  /\ ~last.pgHad
  /\ last.mem = None
  /\ last.pg = None
  /\ Len(memTasks) = 1
  /\ Cardinality(pgRows) = 1

\* C11: in the in-memory backend no id is handed out twice: the ids of the
\* seed tasks and the ids that create has returned on the instance are
\* pairwise distinct, whatever was deleted in between.
C11_IdsNeverReused ==
  \A i, j \in DOMAIN issued : i # j => issued[i] # issued[j]

\* create has returned while the task with the id before the new one is
\* no longer stored
C11_Witness ==
  /\ last.op = "create"
  /\ last.mem.id > 1
  /\ \A i \in DOMAIN memTasks : memTasks[i].id # last.mem.id - 1

\* the ids that were issued before the create that has just returned
IssuedBefore == SubSeq(issued, 1, Len(issued) - 1)

\* the tasks that were stored before the create that has just returned
StoredBefore == SubSeq(memTasks, 1, Len(memTasks) - 1)

\* C12 as stated: create in the in-memory backend gives the new task the id
\* 1 + the highest id among the tasks stored at the time of the call, or 1
\* when the store is empty.
C12_IdFollowsStored ==
  last.op = "create" =>
    last.mem.id = (IF StoredBefore = <<>> THEN 1
                   ELSE 1 + MemMaxId(StoredBefore, 0))

\* C12 amended: create in the in-memory backend gives the new task the id
\* 1 + the highest id among the seed tasks and the tasks created so far on
\* the instance, stored or deleted, or 1 when there has been none.
C12_IdFollowsIssued ==
  last.op = "create" =>
    /\ issued # <<>>
    /\ issued[Len(issued)] = last.mem.id
    /\ last.mem.id = (IF IssuedBefore = <<>> THEN 1
                      ELSE 1 + (CHOOSE m \in Range(IssuedBefore) :
                                  \A k \in Range(IssuedBefore) : k <= m))

\* create has returned on a store that a delete had emptied
C12_Witness ==
  /\ last.op = "create"
  /\ StoredBefore = <<>>
  /\ IssuedBefore # <<>>

\* C13: from an empty store, or from seed tasks with pairwise distinct ids,
\* create, update and delete keep the stored ids pairwise distinct and
\* positive, in both backends.
C13_IdsDistinctAndPositive ==
  /\ \A i, j \in DOMAIN memTasks : i # j => memTasks[i].id # memTasks[j].id
  /\ \A i \in DOMAIN memTasks : memTasks[i].id \in Nat \ {0}
  /\ \A r, o \in pgRows : r # o => r.id # o.id
  /\ \A r \in pgRows : r.id \in Nat \ {0}

\* two tasks are stored after a create, an update or a delete took effect
C13_Witness ==
  /\ Len(memTasks) >= 2
  /\ Cardinality(pgRows) >= 2
  /\ \/ last.op = "create"
     \/ last.op \in {"update", "delete"} /\ last.memHad

\* C14: update on a stored id rewrites the title and done of that task and
\* nothing else: the task keeps its id and its place, every other task is
\* as it was, as many tasks are stored as before, and the next-id counter
\* (the sequence, in Postgres) is as it was.
C14_UpdateTouchesOneTask ==
  [][(last = Idle /\ last'.op = "update" /\ last'.memHad /\ last'.pgHad) =>
       /\ Len(memTasks') = Len(memTasks)
       /\ \A i \in DOMAIN memTasks :
            /\ memTasks'[i].id = memTasks[i].id
            /\ memTasks[i].id # last'.id => memTasks'[i] = memTasks[i]
            /\ memTasks[i].id = last'.id =>
                 /\ memTasks'[i].title = last'.title
                 /\ memTasks'[i].done = last'.done
       /\ nextId' = nextId
       /\ Cardinality(pgRows') = Cardinality(pgRows)
       /\ {r \in pgRows' : r.id # last'.id} = {r \in pgRows : r.id # last'.id}
       /\ {r \in pgRows' : r.id = last'.id} =
            {[id |-> last'.id, title |-> last'.title, done |-> last'.done]}
       /\ pgSeq' = pgSeq]_vars

\* update has rewritten the first stored task while a second task is stored
C14_Witness ==
  /\ last.op = "update"
  /\ last.memHad
  /\ Len(memTasks) >= 2
  /\ memTasks[1].id = last.id
  /\ memTasks[1].title = last.title
  /\ memTasks[1].done = last.done

C16_OrderByIsWhitelisted ==
  last.op = "pgListAnySort" => last.orderBy[1] \in {"id", "title", "done"}

\* C17: list of the Postgres backend with a sort key other than id, title
\* and done does not fail and answers as it does for sort = "id" in the
\* same direction.
C17_UnknownSortIsById ==
  (last.op = "pgListAnySort" /\ last.q.sort \notin {"id", "title", "done"}) =>
    last.pg = [returned |-> PgList(pgRows, [last.q EXCEPT !.sort = "id"])]

\* the store and the answers after the calls have run one after another in
\* the given order on a new repository
RECURSIVE SerialRun(_, _, _)
SerialRun(order, store, answers) ==
  IF order = <<>> THEN [tasks |-> store.tasks, nextId |-> store.nextId,
                        answers |-> answers]
  ELSE LET ran == MemRun(store, reqs[Head(order)].call)
       IN  SerialRun(Tail(order),
                     [tasks |-> ran.tasks, nextId |-> ran.nextId],
                     [answers EXCEPT ![Head(order)] = ran.res])

SerialOrders ==
  {order \in [DOMAIN reqs -> DOMAIN reqs] :
     \A i, j \in DOMAIN reqs : i # j => order[i] # order[j]}

\* C18: in-memory calls of requests in flight together take effect one
\* whole call at a time: creates get pairwise distinct ids, no created task
\* is missing unless a delete of its id ran, and once all calls have run the
\* store and every call's answer are those of the calls run one after
\* another in some order.
C18_CallsAreAtomic ==
  /\ \A r, o \in DOMAIN reqs :
       (/\ r # o
        /\ reqs[r].st # "pending" /\ reqs[r].call.op = "create"
        /\ reqs[o].st # "pending" /\ reqs[o].call.op = "create")
         => reqs[r].mem[1].id # reqs[o].mem[1].id
  /\ \A r \in DOMAIN reqs :
       (reqs[r].st # "pending" /\ reqs[r].call.op = "create")
         => \/ \E i \in DOMAIN memTasks : memTasks[i].id = reqs[r].mem[1].id
            \/ \E o \in DOMAIN reqs :
                 /\ reqs[o].st # "pending"
                 /\ reqs[o].call.op = "delete"
                 /\ reqs[o].call.id = reqs[r].mem[1].id
  /\ (reqs # NoReqs /\ \A r \in DOMAIN reqs : reqs[r].st # "pending")
       => \E order \in SerialOrders :
            LET serial == SerialRun(order, [tasks |-> <<>>, nextId |-> 1],
                                    [r \in DOMAIN reqs |-> None])
            IN  /\ serial.tasks = memTasks
                /\ serial.nextId = nextId
                /\ \A r \in DOMAIN reqs : serial.answers[r] = reqs[r].mem

\* two creates and an update have all run, the update after a create and
\* on a stored task, and both created tasks are stored
C18_Witness ==
  /\ reqs # NoReqs
  /\ \A r \in DOMAIN reqs : reqs[r].st # "pending"
  /\ \E r, o, u \in DOMAIN reqs :
       /\ r # o
       /\ reqs[r].call.op = "create"
       /\ reqs[o].call.op = "create"
       /\ reqs[u].call.op = "update"
       /\ reqs[u].mem # None
       /\ reqs[u].at > reqs[r].at
  /\ Len(memTasks) = 2

\* C19: a list of the Postgres backend that runs among the writes of other
\* requests answers from one statement on one state of the table: when the
\* page is not empty, total is the number of rows that match in the state
\* the statement read, the rows of the page are rows of that state, and the
\* page is no longer than total.
C19_PageAndTotalFromOneState ==
  \A r \in DOMAIN reqs :
    (/\ reqs[r].st = "ran"
     /\ reqs[r].call.op = "list"
     /\ reqs[r].pg[1].items # <<>>)
      => LET answer == reqs[r].pg[1]
             matching == PgWhere(reqs[r].pgSeen, reqs[r].call.q.done,
                                 reqs[r].call.q.search)
         IN  /\ answer.total = Cardinality(matching)
             /\ Len(answer.items) <= answer.total
             /\ Range(answer.items) \subseteq matching

\* a list has answered a page, and a write that ran after it has changed
\* the table the list read
C19_Witness ==
  \E r, w \in DOMAIN reqs :
    /\ reqs[r].st = "ran"
    /\ reqs[r].call.op = "list"
    /\ reqs[r].pg[1].items # <<>>
    /\ reqs[w].st = "ran"
    /\ reqs[w].call.op \in {"create", "update", "delete"}
    /\ reqs[w].at > reqs[r].at
    /\ pgRows # reqs[r].pgSeen

\* the ids of the tasks that were stored and matched the filters of the
\* traversal in every state of the store since the traversal began
SteadyIds ==
  {t.id : t \in {u \in Range(memTasks) :
                   \A S \in watch.stores \cup {Range(memTasks)} :
                     \E v \in S : v.id = u.id /\ Matches(v, pages.q)}}

\* the task with the id is in exactly one place of the pages read
InOnePage(items, id) ==
  Cardinality({i \in DOMAIN items : items[i].id = id}) = 1

\* C20 as stated: the pages of a traversal hold each task that stayed in
\* the store and matched the filters all along exactly once, also when
\* another request created, updated or deleted a task between the pages.
C20_NoSkipNoDuplicateUnderWrites ==
  pages.st = "done" =>
    \A id \in SteadyIds :
      InOnePage(pages.memItems, id) /\ InOnePage(pages.pgItems, id)

\* C20 amended: when no create, update or delete changed the store between
\* the page calls, the pages of a traversal hold each matching task exactly
\* once.
C20_NoSkipNoDuplicateUndisturbed ==
  (pages.st = "done" /\ watch.changes = 0) =>
    \A id \in SteadyIds :
      InOnePage(pages.memItems, id) /\ InOnePage(pages.pgItems, id)

\* an undisturbed traversal of two matching tasks in pages of one task has
\* ended
C20_Witness ==
  /\ pages.st = "done"
  /\ watch.changes = 0
  /\ pages.q.limit = 1
  /\ Cardinality(SteadyIds) = 2

C27_DeleteTouchesOneTask ==
  [][(last = Idle /\ last'.op = "delete") =>
       LET others == {i \in DOMAIN memTasks : memTasks[i].id # last'.id}
       IN  /\ Len(memTasks') = Cardinality(others)
           /\ \A i \in others : \E k \in DOMAIN memTasks' :
                /\ memTasks'[k] = memTasks[i]
                /\ k = Cardinality({j \in others : j <= i})
           /\ \A k \in DOMAIN memTasks' : memTasks'[k].id # last'.id
           /\ nextId' = nextId
           /\ pgRows' = {r \in pgRows : r.id # last'.id}
           /\ pgSeq' = pgSeq]_vars

\* delete has removed the first of two stored tasks and the other is stored
C27_Witness ==
  /\ last.op = "delete"
  /\ last.memHad
  /\ last.id = 1
  /\ Len(memTasks) = 1
  /\ memTasks[1].id = 2
  /\ Cardinality(pgRows) = 1

\* the placeholders of the statement in the order they stand in the text
PlaceholdersInText(sent) ==
  [i \in 1..Len(sent.whereClauses) |-> sent.whereClauses[i].placeholder]
    \o <<sent.limitPlaceholder, sent.offsetPlaceholder>>

\* C30: in list of the Postgres backend, with done present or absent and
\* search present or absent, the placeholders are $1..$n in text order with
\* no gap, n parameters are bound, the parameter bound at each number is the
\* value meant for that placeholder (done, the escaped search pattern,
\* limit, offset), and WHERE is written only when a filter is present.
C30_PlaceholdersMatchParams ==
  last.op = "pgStatement" =>
    LET sent == last.sent
        q == last.q
        n == Len(sent.boundParams)
        hasDone == q.done # None
        hasSearch == q.search # None /\ q.search[1] # <<>>
    IN  /\ PlaceholdersInText(sent) = [i \in 1..n |-> i]
        /\ n = 2 + (IF hasDone THEN 1 ELSE 0) + (IF hasSearch THEN 1 ELSE 0)
        /\ sent.whereKeyword = (hasDone \/ hasSearch)
        /\ [i \in 1..Len(sent.whereClauses) |-> sent.whereClauses[i].text]
             = (IF hasDone THEN <<"done =">> ELSE <<>>)
                 \o (IF hasSearch THEN <<"title ILIKE">> ELSE <<>>)
        /\ \A i \in 1..Len(sent.whereClauses) :
             LET clause == sent.whereClauses[i]
                 bound == sent.boundParams[clause.placeholder]
             IN  IF clause.text = "done ="
                 THEN bound.kind = "done" /\ bound.value = q.done[1]
                 ELSE /\ bound.kind = "search"
                      /\ bound.value = <<"%">> \o escapeLike(q.search[1]) \o <<"%">>
        /\ sent.boundParams[sent.limitPlaceholder].kind = "limit"
        /\ sent.boundParams[sent.limitPlaceholder].value = q.limit
        /\ sent.boundParams[sent.offsetPlaceholder].kind = "offset"
        /\ sent.boundParams[sent.offsetPlaceholder].value = q.offset

\* the statement of a list with a search text and no done filter
C30_Witness ==
  /\ last.op = "pgStatement"
  /\ last.q.done = None
  /\ last.q.search # None
  /\ last.q.search[1] # <<>>
  /\ last.sent.whereKeyword

\* C29: for a list call whose order is neither asc nor desc or whose sort
\* key is none of id, title, done, the in-memory and the Postgres backend
\* answer the same tasks in the same order.
C29_OutOfContractSameOrder ==
  (/\ last.op = "listAny"
   /\ \/ last.q.order \notin {"asc", "desc"}
      \/ last.q.sort \notin {"id", "title", "done"})
    => /\ "returned" \in DOMAIN last.pg
       /\ last.pg.returned.items = last.mem.returned.items

\* C28: a task returned to a caller by create, getById, update or list is
\* a snapshot: on either backend its title and done are what they were when
\* it was returned, whatever update calls follow.
C28_ReturnedTaskIsSnapshot ==
  held.st = "kept" => held.mem = held.then.mem /\ held.pg = held.then.pg

\* the tasks the app's repository stores
StoredTasks == IF http.mode = "memory" THEN Range(memTasks) ELSE pgRows

\* the rate limiter has let the request of the exchange through
Admitted == http.hits <= RateLimitMax

TaskRoutes ==
  {"GET /v1/tasks/:id", "POST /v1/tasks", "PUT /v1/tasks/:id", "DELETE /v1/tasks/:id"}

\* the fields of the request of the exchange that are not as the routes
\* require them
RequestErrors ==
  CASE http.req.route = "GET /v1/tasks" -> ListErrors(http.req.query)
    [] http.req.route \in {"GET /v1/tasks/:id", "DELETE /v1/tasks/:id"} ->
         IdErrors(http.req.params)
    [] http.req.route = "POST /v1/tasks" -> PayloadErrors(http.req.body)
    [] http.req.route = "PUT /v1/tasks/:id" ->
         IdErrors(http.req.params) \cup PayloadErrors(http.req.body)
    [] OTHER -> {}

\* the repository has answered that there is no such task
ReturnedNothing(c) ==
  /\ ~Thrown(c.result)
  /\ IF c.method = "delete" THEN c.result.returned = FALSE
     ELSE c.method \in {"getById", "update"} /\ c.result.returned = None

\* the status the repository outcome asks for
StatusFollows(c) ==
  IF Thrown(c.result)
  THEN http.res = sendError(500, "Internal server error")
  ELSE IF ReturnedNothing(c)
  THEN http.res.status = 404 /\ http.res.body.status = "fail"
  ELSE /\ http.res.status = (IF c.method = "create" THEN 201 ELSE 200)
       /\ http.res.body.status = "success"

\* C21 as stated: on the /v1/tasks routes with valid input the status is
\* determined by the repository outcome: 404 'fail' exactly when the
\* repository returned null or false, 500 'error' with 'Internal server
\* error' when it threw, else 200 (201 for POST) 'success'; the process
\* keeps serving.
C21_StatusFollowsRepository ==
  (http.st = "up" /\ http.req.route \in TaskRoutes /\ RequestErrors = {}) =>
    /\ http.res.status \in {200, 201, 404, 500}
    /\ \A i \in 1..Len(http.calls) : StatusFollows(http.calls[i])
    /\ (http.calls = <<>> =>
          http.res.status = (IF http.req.route = "POST /v1/tasks" THEN 201 ELSE 200))

\* C21: on the /v1/tasks routes a request with valid input that the rate
\* limiter lets through makes one repository call, and the status is
\* determined by its outcome: 404 'fail' exactly when the repository
\* returned null or false, 500 'error' with 'Internal server error' when it
\* threw, else 200 (201 for POST) 'success'. A request past the rate limit
\* is answered 429 'fail' without a repository call. The process keeps
\* serving in every case.
C21_StatusFollowsAdmittedCall ==
  (http.st # "none" /\ http.req.route \in TaskRoutes /\ RequestErrors = {}) =>
    /\ http.st = "up"
    /\ IF Admitted
       THEN Len(http.calls) = 1 /\ StatusFollows(http.calls[1])
       ELSE /\ http.calls = <<>>
            /\ http.res.status = 429
            /\ http.res.body.status = "fail"

\* a valid PUT for a task that is not stored is answered 404, and a valid
\* request while the database is down is answered 500
C21_Witness ==
  /\ http.st = "up"
  /\ http.req.route = "PUT /v1/tasks/:id"
  /\ RequestErrors = {}
  /\ Len(http.calls) = 1
  /\ ReturnedNothing(http.calls[1])
  /\ http.res.status = 404

\* C22: in the GET /v1/tasks response page.returned is the number of
\* items, page.total the number of tasks matching the filters, and
\* page.hasMore is true exactly when matching tasks exist at positions
\* >= offset + returned of the sorted result, on either backend.
C22_PageFieldsAccurate ==
  (/\ http.st = "up"
   /\ http.req.route = "GET /v1/tasks"
   /\ http.res.status = 200
   /\ http.calls[1].args.limit.k = "number") =>
    LET args == http.calls[1].args
        data == http.res.body.data
        matching == Cardinality({t \in StoredTasks : Matches(t, ToQuery(args))})
    IN  /\ data.page.returned = Len(data.items)
        /\ data.page.total = matching
        /\ data.page.hasMore = (args.offset.v + data.page.returned < matching)

\* the arguments of a repository call are what the contract allows
InContract(c) ==
  CASE c.method = "list" ->
         /\ c.args.limit.k = "number" /\ c.args.limit.v \in 0..LimitCeiling
         /\ c.args.offset.k = "number" /\ c.args.offset.v >= 0
         /\ c.args.sort.k = "string" /\ c.args.sort.v \in {"id", "title", "done"}
         /\ c.args.order.k = "string" /\ c.args.order.v \in {"asc", "desc"}
    [] c.method \in {"getById", "delete"} -> c.id.k = "number" /\ c.id.v >= 1
    [] c.method = "create" ->
         /\ c.title.k = "string" /\ c.title.v # <<>>
         /\ c.title.v[1] # " " /\ c.title.v[Len(c.title.v)] # " "
         /\ c.done.k = "boolean"
    [] c.method = "update" ->
         /\ c.id.k = "number" /\ c.id.v >= 1
         /\ c.title.k = "string" /\ c.title.v # <<>>
         /\ c.title.v[1] # " " /\ c.title.v[Len(c.title.v)] # " "
         /\ c.done.k = "boolean"

\* list gets the defaults for the parameters the query string leaves out
DefaultsApplied(c) ==
  c.method = "list" =>
    /\ (http.req.query.limit = Undefined => c.args.limit = Num(20))
    /\ (http.req.query.offset = Undefined => c.args.offset = Num(0))
    /\ (http.req.query.sort = Undefined => c.args.sort = Str("id"))
    /\ (http.req.query.order = Undefined => c.args.order = Str("asc"))

\* C23: every repository call the HTTP layer makes has in-contract
\* arguments (list: limit in 0..100, default 20, offset >= 0, default 0,
\* sort in {id, title, done}, default id, order in {asc, desc}, default
\* asc; getById, update, delete: an integer id >= 1; create, update: a
\* title non-empty after trimming and a boolean done), and a request the
\* rate limiter lets through that violates any of these is answered 400
\* 'fail' without a repository call.
C23_CallsInContract ==
  http.st = "up" =>
    /\ \A i \in 1..Len(http.calls) :
         InContract(http.calls[i]) /\ DefaultsApplied(http.calls[i])
    /\ (RequestErrors # {} /\ Admitted =>
          /\ http.res.status = 400
          /\ http.res.body.status = "fail"
          /\ http.calls = <<>>)

EventuallyExits == (sd.st = "up" /\ sd.signals # <<>>) ~> (sd.exit # None)

\* the pool is ended only once the server accepts no connections
PoolEndsAfterServerStops ==
  (sd.st = "up" /\ sd.pool \in {"ending", "ended"}) => sd.server \in {"none", "closed"}

\* C25: after SIGTERM or SIGINT the process exits with status 0 when the
\* server closed without error and with status 1 when the 30-second timer
\* forces the exit, and the pool is ended only after the server has stopped
\* accepting connections, also when a second signal arrives while a
\* shutdown is in progress.
C25_ExitStatusOfShutdown ==
  /\ PoolEndsAfterServerStops
  /\ (sd.st = "up" /\ sd.exit # None) =>
       IF sd.forced THEN sd.exit = Some(1)
       ELSE sd.server \in {"none", "closed"} /\ sd.exit = Some(0)

====
